---- MODULE Spec2Model ----
(***************************************************************************)
(* Verification model of the Carapace security and execution gateway:      *)
(* the per-user sandbox manager, the approval handler, the security        *)
(* before-hook with its rate limiter, anomaly detector and audit store,    *)
(* and the command classifier.                                             *)
(***************************************************************************)
EXTENDS Integers, Sequences, FiniteSets, Bags, TLC

(***************************************************************************)
(* The state of the components; each is described with its component.      *)
(***************************************************************************)
\* SandboxManager
VARIABLES sandboxes, pendingCreations, creationState, provider, armedTimers,
          apiKey, calls, lastDone, createCalls, staleTimers, staleFired,
          pauseCalls, disturbed

sandboxVars == <<sandboxes, pendingCreations, creationState, provider,
                 armedTimers, apiKey, calls, lastDone, createCalls,
                 staleTimers, staleFired, pauseCalls, disturbed>>

\* ApprovalHandler
VARIABLES pending, armedTimeouts, promise, expired, lastCall, signals, wins,
          callsOn, first

approvalVars == <<pending, armedTimeouts, promise, expired, lastCall, signals,
                  wins, callsOn, first>>

\* SecurityClassifier
VARIABLES customRules, classified

classifierVars == <<customRules, classified>>

\* the before-hook, AuditStore, RateLimiter and AnomalyDetector
VARIABLES entries, stats, uuids, buckets, baselines, recentCommands, hour,
          hookCalls, hookStarted, hookReturn

hookVars == <<entries, stats, uuids, buckets, baselines, recentCommands, hour,
              hookCalls, hookStarted, hookReturn>>

\* RateLimiter with its clock, and the gateway methods that use it
VARIABLES config, limiterBuckets, now, allowedInWindow, checked

limiterVars == <<config, limiterBuckets, now, allowedInWindow, checked>>

\* CronScheduler, the job objects and the job store
VARIABLES jobs, stored, scheduledTasks, orphanTimers, activeExecutions,
          executions, abandoned, rpcs, starts, rpcStarted, waiting,
          unscheduled, paused, cronEvent

cronVars == <<jobs, stored, scheduledTasks, orphanTimers, activeExecutions,
              executions, abandoned, rpcs, starts, rpcStarted, waiting,
              unscheduled, paused, cronEvent>>

\* the secrets scanner applied to a text
VARIABLES history, scanned

scannerVars == <<history, scanned>>

\* the secrets detection configuration and its gateway method
VARIABLES secretsDetectionConfig, configureCall

secretsConfigVars == <<secretsDetectionConfig, configureCall>>

\* the operations on the audit store and the after-hook of the audit log
VARIABLES auditOps, afterCalls, auditEvent

auditVars == <<auditOps, afterCalls, auditEvent>>

\* S3JobStore: the key-value store, the cache and the job objects
VARIABLES kv, jobsCache, objects, storeCalls, storeStarted

jobStoreVars == <<kv, jobsCache, objects, storeCalls, storeStarted>>

\* the hook pipeline of before_tool_call with the security hook and the
\* sandbox execution hook
VARIABLES handlers, toolCalls, toolStarted

pipelineVars == <<handlers, toolCalls, toolStarted>>

\* two runs of the audit store that differ in the commands of the other
\* users, and the response of carapace.audit.logs in each
VARIABLES runs, issued, logs

isolationVars == <<runs, issued, logs>>

vars ==
    <<sandboxVars, approvalVars, classifierVars, hookVars, limiterVars,
      cronVars, scannerVars, secretsConfigVars, auditVars,
      jobStoreVars,
      pipelineVars,
      isolationVars>>

\* the components share no state: an operation of one leaves the others as
\* they are
SandboxOnly ==
    UNCHANGED <<approvalVars, classifierVars, hookVars, limiterVars, cronVars,
                scannerVars, secretsConfigVars, auditVars,
                jobStoreVars,
                pipelineVars,
                isolationVars>>
ApprovalOnly ==
    UNCHANGED <<sandboxVars, classifierVars, hookVars, limiterVars, cronVars,
                scannerVars, secretsConfigVars, auditVars,
                jobStoreVars,
                pipelineVars,
                isolationVars>>
ClassifierOnly ==
    UNCHANGED <<sandboxVars, approvalVars, hookVars, limiterVars, cronVars,
                scannerVars, secretsConfigVars, auditVars,
                jobStoreVars,
                pipelineVars,
                isolationVars>>
HookOnly ==
    UNCHANGED <<sandboxVars, approvalVars, classifierVars, limiterVars, cronVars,
                scannerVars, secretsConfigVars, auditVars,
                jobStoreVars,
                pipelineVars,
                isolationVars>>
LimiterOnly ==
    UNCHANGED <<sandboxVars, approvalVars, classifierVars, hookVars, cronVars,
                scannerVars, secretsConfigVars, auditVars,
                jobStoreVars,
                pipelineVars,
                isolationVars>>
CronOnly ==
    UNCHANGED <<sandboxVars, approvalVars, classifierVars, hookVars, limiterVars,
                scannerVars, secretsConfigVars, auditVars,
                jobStoreVars,
                pipelineVars,
                isolationVars>>

ScannerOnly ==
    UNCHANGED <<sandboxVars, approvalVars, classifierVars, hookVars,
                limiterVars, cronVars, secretsConfigVars, auditVars,
                jobStoreVars,
                pipelineVars,
                isolationVars>>
SecretsConfigOnly ==
    UNCHANGED <<sandboxVars, approvalVars, classifierVars, hookVars,
                limiterVars, cronVars, scannerVars, auditVars,
                jobStoreVars,
                pipelineVars,
                isolationVars>>
\* the operations on the audit store read the secrets detection
\* configuration and leave the rest of the before-hook's state alone
AuditOnly ==
    UNCHANGED <<sandboxVars, approvalVars, classifierVars, limiterVars,
                cronVars, scannerVars, secretsConfigVars, buckets, baselines,
                recentCommands, hour, hookCalls, hookStarted, hookReturn,
                jobStoreVars,
                pipelineVars,
                isolationVars>>

(***************************************************************************)
(* SandboxManager (sandbox-manager.ts).                                    *)
(*                                                                         *)
(* The maps of the manager are keyed by userId and no operation reads or   *)
(* writes the entry of another user, so the model follows the entries of   *)
(* one user.                                                               *)
(*   sandboxes         the UserSandbox recorded for the user (0: none). A  *)
(*                     UserSandbox object is identified by the number of   *)
(*                     the doCreate run that built it.                     *)
(*   pendingCreations  the creation promise registered for the user        *)
(*                     (0: none), the number of its doCreate run           *)
(*   creationState[k]  the promise of doCreate run k                       *)
(*   provider[k]       what the sandbox provider holds for sandbox k       *)
(*   armedTimers       UserSandbox objects whose idleTimer is armed        *)
(*   apiKey            whether an E2B API key is configured                *)
(*   calls             the asynchronous calls in progress, a bag of call   *)
(*                     records                                             *)
(*   lastDone          the getOrCreate or execute call that settled in the *)
(*                     last step, with its outcome (IdleCall: none did)    *)
(* History: createCalls[k] counts the provider create invocations of run   *)
(* k, staleTimers are the armed timers that were armed before a terminate  *)
(* completed, staleFired says that the last step was such a timer firing,  *)
(* pauseCalls[k] counts the pause invocations on sandbox k, disturbed[k]   *)
(* says that a call of the manager was issued after sandbox k was created. *)
(***************************************************************************)
\* number of calls of the sandbox manager that can be in progress at once
MaxCalls == 2
\* number of doCreate runs followed in one behaviour
MaxCreations == 2

Creations == 1 .. MaxCreations

\* a call record: the operation, where it stands, the UserSandbox or promise
\* it holds (ref), the sandbox getOrCreate gave it (res), its outcome, the
\* doCreate runs that were in flight when it was issued (seen), and the
\* sandboxes a hibernate or terminate was pausing or killing then (ending)
IdleCall == [op |-> "none", pc |-> "idle", ref |-> 0, res |-> 0,
             out |-> "none", seen |-> {}, ending |-> {}]

SandboxInit ==
    /\ sandboxes = 0
    /\ pendingCreations = 0
    /\ creationState = [k \in Creations |-> "unused"]
    /\ provider = [k \in Creations |-> "none"]
    /\ armedTimers = {}
    /\ apiKey \in BOOLEAN
    /\ calls = EmptyBag
    /\ lastDone = IdleCall
    /\ createCalls = [k \in Creations |-> 0]
    /\ staleTimers = {}
    /\ staleFired = FALSE
    /\ pauseCalls = [k \in Creations |-> 0]
    /\ disturbed = [k \in Creations |-> FALSE]

\* a caller issues a call after the sandboxes created so far
CallIssued ==
    disturbed' = [k \in Creations |->
                     disturbed[k] \/ creationState[k] = "ok"]

\* getStatus (lines 146-160)
getStatus == [active |-> sandboxes # 0]

\* a new call can start while fewer than MaxCalls calls are in progress; it
\* is the call record IdleCall that takes its first step
FreeSlot(c) == /\ c = IdleCall
               /\ BagCardinality(calls) < MaxCalls

\* the calls in progress and the call that can start
Calls == BagToSet(calls) \cup {IdleCall}

NumCreations == Cardinality({k \in Creations : creationState[k] # "unused"})

\* the doCreate runs whose promise is not settled yet
InFlight == {k \in Creations : creationState[k] \in {"import", "create"}}

\* the sandboxes on which a hibernate (lines 100-121) or terminate (lines
\* 128-144) in progress has invoked pause or kill
BeingEnded == {c.ref : c \in {x \in BagToSet(calls) :
                                   x.op \in {"hibernate", "terminate"}}}

\* resetIdleTimer (lines 162-174): clearTimeout of the old handle and
\* setTimeout of a new one on the recorded UserSandbox sb; nothing without one
resetIdleTimer(sb, armed) == IF sb = 0 THEN armed ELSE armed \cup {sb}

\* the timers that are still the ones armed before, not re-armed by a reset
StillStale(sb, stale) == IF sb = 0 THEN stale ELSE stale \ {sb}

\* getOrCreate line 35 with a creation promise that is only registered once
\* doCreate is behind its import
getOrCreatePendingAfterImport ==
    IF pendingCreations # 0 /\ creationState[pendingCreations] = "import"
    THEN 0 ELSE pendingCreations

\* getOrCreate line 35: the pending creation promise
getOrCreatePending == pendingCreations

\* call c goes on as rec; a call that is done leaves the calls in progress
\* and the outcome of a getOrCreate or execute is what its caller observes
Step(c, rec) ==
    LET others == IF c = IdleCall THEN calls ELSE calls (-) SetToBag({c})
    IN  IF rec.pc = "done"
        THEN /\ calls' = others
             /\ lastDone' = IF rec.op \in {"getOrCreate", "execute"}
                             THEN rec ELSE IdleCall
        ELSE /\ calls' = others (+) SetToBag({rec})
             /\ lastDone' = IdleCall

\* execute line 75: `await this.getOrCreate(userId)` stands before the try
\* block, a rejection of getOrCreate leaves execute as an exception
executeGetThrew == "threw"

\* what the caller of getOrCreate gets (lines 32, 37, 45): a getOrCreate call
\* is done, an execute call goes on behind its await of getOrCreate
FinishGet(call, sb, threw) ==
    IF call.op = "getOrCreate"
    THEN [call EXCEPT !.pc = "done", !.res = sb,
                      !.out = IF threw THEN "threw" ELSE "returned"]
    ELSE IF threw
         THEN [call EXCEPT !.pc = "done", !.res = 0, !.out = executeGetThrew]
         ELSE [call EXCEPT !.pc = "afterGet", !.res = sb]

\* getOrCreate up to its first await (lines 27-44), for a getOrCreate call
\* or as the first statement of execute
GetOrCreateEnter(c, op) ==
    LET base == [IdleCall EXCEPT !.op = op, !.seen = InFlight,
                                 !.ending = BeingEnded]
    IN  IF sandboxes # 0
        THEN /\ armedTimers' = resetIdleTimer(sandboxes, armedTimers)
             /\ staleTimers' = StillStale(sandboxes, staleTimers)
             /\ Step(c, FinishGet(base, sandboxes, FALSE))
             /\ staleFired' = FALSE
             /\ UNCHANGED <<sandboxes, pendingCreations, creationState,
                            provider, apiKey, createCalls>>
        ELSE IF getOrCreatePending # 0
        THEN /\ Step(c, [base EXCEPT !.pc = "joined",
                                     !.ref = getOrCreatePending])
             /\ staleFired' = FALSE
             /\ UNCHANGED <<sandboxes, pendingCreations, creationState,
                            provider, armedTimers, apiKey, createCalls,
                            staleTimers>>
        ELSE /\ NumCreations < MaxCreations
             /\ LET k == NumCreations + 1
                IN  /\ creationState' = [creationState EXCEPT ![k] = "import"]
                    /\ pendingCreations' = k
                    /\ Step(c, [base EXCEPT !.pc = "creating", !.ref = k])
             /\ staleFired' = FALSE
             /\ UNCHANGED <<sandboxes, provider, armedTimers, apiKey,
                            createCalls, staleTimers>>

\* a caller invokes getOrCreate(userId)
GetOrCreateCall(c) ==
    /\ FreeSlot(c)
    /\ GetOrCreateEnter(c, "getOrCreate")
    /\ CallIssued
    /\ UNCHANGED pauseCalls
    /\ SandboxOnly

\* a caller invokes execute(userId, command): line 75 enters getOrCreate
ExecuteCall(c) ==
    /\ FreeSlot(c)
    /\ GetOrCreateEnter(c, "execute")
    /\ CallIssued
    /\ UNCHANGED pauseCalls
    /\ SandboxOnly

\* doCreate lines 52-59: behind the import, the API key check, then the
\* provider's Sandbox.create is invoked
DoCreateAfterImport(c) ==
    /\ c.pc = "creating"
    /\ creationState[c.ref] = "import"
    /\ IF apiKey
       THEN /\ creationState' = [creationState EXCEPT ![c.ref] = "create"]
            /\ createCalls' = [createCalls EXCEPT ![c.ref] = @ + 1]
       ELSE /\ creationState' = [creationState EXCEPT ![c.ref] = "err"]
            /\ UNCHANGED createCalls
    /\ lastDone' = IdleCall
    /\ staleFired' = FALSE
    /\ UNCHANGED <<sandboxes, pendingCreations, provider, armedTimers, apiKey,
                   calls, staleTimers>>
    /\ UNCHANGED <<pauseCalls, disturbed>>
    /\ SandboxOnly

\* doCreate lines 59-71: Sandbox.create settles; on success the UserSandbox
\* is recorded and the idle timer armed, on failure the promise rejects
DoCreateProviderResult(c, ok) ==
    /\ c.pc = "creating"
    /\ creationState[c.ref] = "create"
    /\ IF ok
       THEN /\ provider' = [provider EXCEPT ![c.ref] = "running"]
            /\ sandboxes' = c.ref
            /\ armedTimers' = resetIdleTimer(c.ref, armedTimers)
            /\ staleTimers' = StillStale(c.ref, staleTimers)
            /\ creationState' = [creationState EXCEPT ![c.ref] = "ok"]
       ELSE /\ creationState' = [creationState EXCEPT ![c.ref] = "err"]
            /\ UNCHANGED <<provider, sandboxes, armedTimers, staleTimers>>
    /\ lastDone' = IdleCall
    /\ staleFired' = FALSE
    /\ UNCHANGED <<pendingCreations, apiKey, calls, createCalls>>
    /\ UNCHANGED <<pauseCalls, disturbed>>
    /\ SandboxOnly

\* the value a settled creation promise gives to a call waiting on it
Settled(c) ==
    FinishGet(c, IF creationState[c.ref] = "ok" THEN c.ref ELSE 0,
              creationState[c.ref] = "err")

\* getOrCreate lines 44-48: the creating call resumes behind the settled
\* promise, removes the pending entry and returns the sandbox or rethrows
GetOrCreateFinally(c) ==
    /\ c.pc = "creating"
    /\ creationState[c.ref] \in {"ok", "err"}
    /\ pendingCreations' = 0
    /\ Step(c, Settled(c))
    /\ staleFired' = FALSE
    /\ UNCHANGED <<sandboxes, creationState, provider, armedTimers, apiKey,
                   createCalls, staleTimers>>
    /\ UNCHANGED <<pauseCalls, disturbed>>
    /\ SandboxOnly

\* getOrCreate line 37: a call that found the pending promise resumes with
\* its result
GetOrCreateJoinedReturn(c) ==
    /\ c.pc = "joined"
    /\ creationState[c.ref] \in {"ok", "err"}
    /\ Step(c, Settled(c))
    /\ staleFired' = FALSE
    /\ UNCHANGED <<sandboxes, pendingCreations, creationState, provider,
                   armedTimers, apiKey, createCalls, staleTimers>>
    /\ UNCHANGED <<pauseCalls, disturbed>>
    /\ SandboxOnly

\* execute lines 76-85: behind getOrCreate; without a recorded UserSandbox
\* the structured failure "Sandbox not found", else touch, timer reset and
\* commands.run on the sandbox getOrCreate returned
ExecuteAfterGetOrCreate(c) ==
    /\ c.op = "execute"
    /\ c.pc = "afterGet"
    /\ IF sandboxes = 0
       THEN /\ Step(c, [c EXCEPT !.pc = "done", !.out = "failure"])
            /\ UNCHANGED <<armedTimers, staleTimers>>
       ELSE /\ armedTimers' = resetIdleTimer(sandboxes, armedTimers)
            /\ staleTimers' = StillStale(sandboxes, staleTimers)
            /\ Step(c, [c EXCEPT !.pc = "running"])
    /\ staleFired' = FALSE
    /\ UNCHANGED <<sandboxes, pendingCreations, creationState, provider,
                   apiKey, createCalls>>
    /\ UNCHANGED <<pauseCalls, disturbed>>
    /\ SandboxOnly

\* execute lines 85-97: commands.run settles; a rejection is caught and
\* becomes the structured failure
ExecuteRunResult(c, ok) ==
    /\ c.op = "execute"
    /\ c.pc = "running"
    /\ ok => provider[c.res] = "running"
    /\ Step(c, [c EXCEPT !.pc = "done",
                         !.out = IF ok THEN "success" ELSE "failure"])
    /\ staleFired' = FALSE
    /\ UNCHANGED <<sandboxes, pendingCreations, creationState, provider,
                   armedTimers, apiKey, createCalls, staleTimers>>
    /\ UNCHANGED <<pauseCalls, disturbed>>
    /\ SandboxOnly

\* hibernate lines 100-109 up to the await of pause, with the timers armed
\* when it is entered
HibernateEnter(c, armed, stale) ==
    LET base == [IdleCall EXCEPT !.op = "hibernate"]
    IN  IF sandboxes = 0
        THEN /\ Step(c, [base EXCEPT !.pc = "done", !.out = "returned"])
             /\ armedTimers' = armed
             /\ staleTimers' = stale
             /\ UNCHANGED pauseCalls
        ELSE /\ Step(c, [base EXCEPT !.pc = "pausing", !.ref = sandboxes])
             /\ armedTimers' = armed \ {sandboxes}
             /\ staleTimers' = stale \ {sandboxes}
             /\ pauseCalls' = [pauseCalls EXCEPT ![sandboxes] = @ + 1]

\* a caller invokes hibernate(userId)
HibernateCall(c) ==
    /\ FreeSlot(c)
    /\ HibernateEnter(c, armedTimers, staleTimers)
    /\ staleFired' = FALSE
    /\ UNCHANGED <<sandboxes, pendingCreations, creationState, provider,
                   apiKey, createCalls>>
    /\ CallIssued
    /\ SandboxOnly

\* the timeout callback of resetIdleTimer (lines 170-173) runs for the timer
\* of UserSandbox k: it calls hibernate(userId)
IdleTimerFire(c, k) ==
    /\ FreeSlot(c)
    /\ k \in armedTimers
    /\ staleFired' = (k \in staleTimers)
    /\ HibernateEnter(c, armedTimers \ {k}, staleTimers \ {k})
    /\ UNCHANGED <<sandboxes, pendingCreations, creationState, provider,
                   apiKey, createCalls>>
    /\ UNCHANGED disturbed
    /\ SandboxOnly

\* hibernate lines 109-120: pause settles; on success the mapping is
\* dropped, on failure kill is attempted
HibernatePauseResult(c, ok) ==
    /\ c.op = "hibernate"
    /\ c.pc = "pausing"
    /\ ok => provider[c.ref] = "running"
    /\ IF ok
       THEN /\ provider' = [provider EXCEPT ![c.ref] = "paused"]
            /\ sandboxes' = 0
            /\ Step(c, [c EXCEPT !.pc = "done", !.out = "returned"])
       ELSE /\ Step(c, [c EXCEPT !.pc = "killing"])
            /\ UNCHANGED <<provider, sandboxes>>
    /\ staleFired' = FALSE
    /\ UNCHANGED <<pendingCreations, creationState, armedTimers, apiKey,
                   createCalls, staleTimers>>
    /\ UNCHANGED <<pauseCalls, disturbed>>
    /\ SandboxOnly

\* the provider's state after kill of sandbox k settled
AfterKill(k, ok) == IF ok THEN [provider EXCEPT ![k] = "killed"] ELSE provider

\* hibernate lines 113-120: the fallback kill settles, errors are ignored,
\* the mapping is dropped
HibernateKillResult(c, ok) ==
    /\ c.op = "hibernate"
    /\ c.pc = "killing"
    /\ provider' = AfterKill(c.ref, ok)
    /\ sandboxes' = 0
    /\ Step(c, [c EXCEPT !.pc = "done", !.out = "returned"])
    /\ staleFired' = FALSE
    /\ UNCHANGED <<pendingCreations, creationState, armedTimers, apiKey,
                   createCalls, staleTimers>>
    /\ UNCHANGED <<pauseCalls, disturbed>>
    /\ SandboxOnly

\* terminate lines 128-137 up to the await of kill; without a recorded
\* UserSandbox terminate has completed at once
TerminateCall(c) ==
    /\ FreeSlot(c)
    /\ LET base == [IdleCall EXCEPT !.op = "terminate"]
       IN  IF sandboxes = 0
           THEN /\ Step(c, [base EXCEPT !.pc = "done", !.out = "returned"])
                /\ staleTimers' = armedTimers
                /\ UNCHANGED armedTimers
           ELSE /\ Step(c, [base EXCEPT !.pc = "killing", !.ref = sandboxes])
                /\ armedTimers' = armedTimers \ {sandboxes}
                /\ staleTimers' = staleTimers \ {sandboxes}
    /\ staleFired' = FALSE
    /\ UNCHANGED <<sandboxes, pendingCreations, creationState, provider,
                   apiKey, createCalls>>
    /\ CallIssued
    /\ UNCHANGED pauseCalls
    /\ SandboxOnly

\* terminate lines 137-143: kill settles, a failure is only logged, the
\* mapping is dropped and terminate has completed
TerminateKillResult(c, ok) ==
    /\ c.op = "terminate"
    /\ c.pc = "killing"
    /\ provider' = AfterKill(c.ref, ok)
    /\ sandboxes' = 0
    /\ Step(c, [c EXCEPT !.pc = "done", !.out = "returned"])
    /\ staleTimers' = armedTimers
    /\ staleFired' = FALSE
    /\ UNCHANGED <<pendingCreations, creationState, armedTimers, apiKey,
                   createCalls>>
    /\ UNCHANGED <<pauseCalls, disturbed>>
    /\ SandboxOnly

SandboxNext ==
    \/ \E c \in Calls : GetOrCreateCall(c)
    \/ \E c \in Calls : ExecuteCall(c)
    \/ \E c \in Calls : DoCreateAfterImport(c)
    \/ \E c \in Calls, ok \in BOOLEAN : DoCreateProviderResult(c, ok)
    \/ \E c \in Calls : GetOrCreateFinally(c)
    \/ \E c \in Calls : GetOrCreateJoinedReturn(c)
    \/ \E c \in Calls : ExecuteAfterGetOrCreate(c)
    \/ \E c \in Calls, ok \in BOOLEAN : ExecuteRunResult(c, ok)
    \/ \E c \in Calls : HibernateCall(c)
    \/ \E c \in Calls, k \in Creations : IdleTimerFire(c, k)
    \/ \E c \in Calls, ok \in BOOLEAN : HibernatePauseResult(c, ok)
    \/ \E c \in Calls, ok \in BOOLEAN : HibernateKillResult(c, ok)
    \/ \E c \in Calls : TerminateCall(c)
    \/ \E c \in Calls, ok \in BOOLEAN : TerminateKillResult(c, ok)

(***************************************************************************)
(* Claims about the sandbox manager.                                       *)
(***************************************************************************)
\* the doCreate runs a getOrCreate (or the getOrCreate of an execute)
\* overlapped: those in flight when it was issued and the one it waited on
Overlapped(c) == c.seen \cup (IF c.pc \in {"creating", "joined"} \/ c.pc = "done"
                              THEN {c.ref} \ {0} ELSE {})

\* C1: single-flight creation. At most one doCreate run is in flight at any
\* time, a run invokes the provider's create at most once, and every
\* getOrCreate that was issued while a run was in flight, or started one,
\* returns the sandbox of exactly that run, which the provider created with
\* one create call; an execute gets the same from its getOrCreate.
C1_SingleFlight ==
    /\ Cardinality(InFlight) <= 1
    /\ \A k \in Creations : createCalls[k] <= 1
    /\ \A c \in BagToSet(calls) :
          c.pc \in {"creating", "joined"} => Overlapped(c) = {c.ref}
    /\ \A c \in BagToSet(calls) :
          (c.pc \in {"afterGet", "running"} /\ c.seen # {})
              => (c.seen = {c.res} /\ createCalls[c.res] = 1)
    /\ (lastDone.op = "getOrCreate" /\ lastDone.out = "returned"
            /\ Overlapped(lastDone) # {})
          => /\ Overlapped(lastDone) = {lastDone.res}
             /\ createCalls[lastDone.res] = 1
             /\ provider[lastDone.res] # "none"

\* C1 witness: a getOrCreate that was issued while a creation was in flight
\* has returned the sandbox of that creation
C1_Witness ==
    /\ lastDone.op = "getOrCreate"
    /\ lastDone.out = "returned"
    /\ lastDone.seen = {lastDone.res}
    /\ createCalls[lastDone.res] = 1

\* the sandboxes the provider created that are neither paused nor killed
ActiveSandbox == {k \in Creations : provider[k] = "running"}

\* C2: at most one sandbox of the user is active at the provider
C2_AtMostOneActive == Cardinality(ActiveSandbox) <= 1

\* C3: no idle timer armed before a terminate completed fires (calls
\* hibernate) after it
C3_NoTimerAfterTerminate == ~staleFired

\* C7: execute never leaves by an exception
C7_ExecuteNeverRaises == ~(lastDone.op = "execute" /\ lastDone.out = "threw")

\* C21: the provider's pause is invoked at most once on a sandbox, and at
\* most one idle timer of the user is armed
C21_OnePauseOneTimer ==
    /\ \A k \in Creations : pauseCalls[k] <= 1
    /\ Cardinality(armedTimers) <= 1

\* C22: a getOrCreate or execute that begins after a hibernate or terminate
\* has begun never returns, and never runs a command on, the sandbox on
\* which that hibernate or terminate invokes pause or kill
C22_ObservesEarlierEnd ==
    /\ (lastDone.op = "getOrCreate" /\ lastDone.out = "returned")
          => lastDone.res \notin lastDone.ending
    /\ \A c \in BagToSet(calls) :
          (c.op = "execute" /\ c.pc = "running") => c.res \notin c.ending

\* sandbox k was created, pause was invoked on it once, and the hibernate
\* that invoked it has completed
Hibernated(k) ==
    /\ creationState[k] = "ok"
    /\ pauseCalls[k] = 1
    /\ sandboxes # k
    /\ \A c \in BagToSet(calls) : ~(c.op = "hibernate" /\ c.ref = k)

\* sandbox k is recorded for the user with its idle timer armed, no
\* getOrCreate or execute is in progress, and no call was issued since its
\* creation
Idle(k) ==
    /\ creationState[k] = "ok"
    /\ sandboxes = k
    /\ k \in armedTimers
    /\ pauseCalls[k] = 0
    /\ ~disturbed[k]
    /\ \A c \in BagToSet(calls) : c.op \notin {"getOrCreate", "execute"}

\* C20: a sandbox after whose creation no call of the manager is issued for
\* the user is hibernated when its idle timeout elapses: pause is invoked on
\* it exactly once, and from then on getStatus reports active = false
C20_IdleTimeoutHibernatesOnce ==
    /\ \A k \in Creations : Idle(k) ~> (disturbed[k] \/ Hibernated(k))
    /\ \A k \in Creations :
          [](Hibernated(k) /\ ~disturbed[k] => ~getStatus.active)
\* the provider's create of doCreate run k has failed
ProviderFailed(k) == creationState[k] = "err" /\ createCalls[k] = 1

\* the failure of run k, the latest, has reached every call that waited on
\* that creation
FailureDelivered(k) ==
    /\ ProviderFailed(k)
    /\ k = NumCreations
    /\ \A c \in BagToSet(calls) :
          ~(c.pc \in {"creating", "joined"} /\ c.ref = k)

\* C32: when the provider's create fails, every call that waited on the
\* creation gets the failure; afterwards the user has no recorded sandbox,
\* no pending creation and no armed idle timer, and the next getOrCreate
\* starts a fresh doCreate run, which invokes the provider's create
C32_FailedCreationLeavesNothing ==
    /\ [](\A k \in Creations :
             /\ (ProviderFailed(k) /\ lastDone.pc = "done"
                     /\ lastDone.ref = k /\ lastDone.res = 0)
                   => lastDone.out = "threw"
             /\ FailureDelivered(k) =>
                   /\ sandboxes = 0
                   /\ pendingCreations = 0
                   /\ armedTimers = {}
             /\ creationState[k] \in {"create", "ok"} => createCalls[k] = 1)
    /\ [][\A k \in Creations :
             (FailureDelivered(k) /\ \E c \in Calls : GetOrCreateCall(c))
                 => /\ pendingCreations' = k + 1
                    /\ creationState'[k + 1] = "import"]_vars

\* C40: no sandbox is orphaned: every sandbox the provider created that is
\* neither paused nor killed is the one the mapping records, and a hibernate
\* or terminate that drops the mapping drops the one of the sandbox on which
\* it invoked pause or kill
C40_NoOrphanSandbox ==
    /\ [](\A k \in ActiveSandbox : sandboxes = k)
    /\ [][\A c \in BagToSet(calls) :
             (/\ c.op \in {"hibernate", "terminate"}
              /\ c.pc \in {"pausing", "killing"}
              /\ CopiesIn(c, calls') < CopiesIn(c, calls)
              /\ sandboxes # 0
              /\ sandboxes' = 0)
                 => c.ref = sandboxes]_vars

(***************************************************************************)
(* ApprovalHandler (approval-handler.ts).                                  *)
(*   pending         the ids in the pending map                            *)
(*   armedTimeouts   the ids whose setTimeout handle is armed              *)
(*   promise[id]     the promise requestApproval returned: "none" before   *)
(*                   the request exists, "unsettled", or how it settled    *)
(*   expired         the ids whose expiresAt lies before the current time  *)
(*   lastCall        the approve, reject or cleanup call of the last step  *)
(*                   and its result ("none": the step was no such call)    *)
(* History: signals[id] counts the calls of the promise's resolve and      *)
(* reject, wins[id] the approve and reject calls on id that did not throw, *)
(* callsOn[id] the approve and reject calls on id (2: two or more),        *)
(* first[id] the first of them and whether it found id pending.            *)
(***************************************************************************)
\* number of approval requests followed in one behaviour
MaxRequests == 2

RequestIds == 1 .. MaxRequests

NoCall == [op |-> "none", id |-> 0, result |-> "none"]

ApprovalInit ==
    /\ pending = {}
    /\ armedTimeouts = {}
    /\ promise = [id \in RequestIds |-> "none"]
    /\ expired = {}
    /\ lastCall = NoCall
    /\ signals = [id \in RequestIds |-> 0]
    /\ wins = [id \in RequestIds |-> 0]
    /\ callsOn = [id \in RequestIds |-> 0]
    /\ first = [id \in RequestIds |-> [op |-> "none", found |-> FALSE]]

\* resolve or reject of a promise: only the first call settles it
Settle(id, outcome) ==
    [promise EXCEPT ![id] = IF @ = "unsettled" THEN outcome ELSE @]

\* requestApproval (lines 23-48): a fresh id, the timeout is armed and the
\* entry is put into the pending map
requestApproval(id) ==
    /\ promise[id] = "none"
    /\ \A j \in RequestIds : j < id => promise[j] # "none"
    /\ promise' = [promise EXCEPT ![id] = "unsettled"]
    /\ armedTimeouts' = armedTimeouts \cup {id}
    /\ pending' = pending \cup {id}
    /\ lastCall' = NoCall
    /\ UNCHANGED <<expired, signals, wins, callsOn, first>>
    /\ ApprovalOnly

\* time passes the expiresAt of request id; every request has the same
\* timeoutMs, so requests expire in the order of their creation
ClockPassesExpiry(id) ==
    /\ promise[id] # "none"
    /\ id \notin expired
    /\ \A j \in RequestIds : j < id => j \in expired
    /\ expired' = expired \cup {id}
    /\ lastCall' = NoCall
    /\ UNCHANGED <<pending, armedTimeouts, promise, signals, wins, callsOn,
                   first>>
    /\ ApprovalOnly

\* the timeout callback of requestApproval (lines 34-37) runs, not before
\* timeoutMs have passed: the entry is deleted and the promise rejected
TimeoutFires(id) ==
    /\ id \in armedTimeouts
    /\ id \in expired
    /\ armedTimeouts' = armedTimeouts \ {id}
    /\ pending' = pending \ {id}
    /\ promise' = Settle(id, "Timeout")
    /\ signals' = [signals EXCEPT ![id] = @ + 1]
    /\ lastCall' = NoCall
    /\ UNCHANGED <<expired, wins, callsOn, first>>
    /\ ApprovalOnly

\* the history of approve and reject calls on id
Called(op, id) ==
    /\ callsOn' = [callsOn EXCEPT ![id] = IF @ < 2 THEN @ + 1 ELSE @]
    /\ first' = IF first[id].op = "none"
                THEN [first EXCEPT ![id] = [op |-> op, found |-> id \in pending]]
                ELSE first

\* approveRequest without the clearTimeout of line 59
approveRequestKeepsTimeout(id) == armedTimeouts

\* approveRequest line 59: clearTimeout(pending.timeout)
approveRequestClearTimeout(id) == armedTimeouts \ {id}

\* rejectRequest without the pending.delete of line 81
rejectRequestKeepsEntry(id) == pending

\* rejectRequest line 81: this.pending.delete(requestId)
rejectRequestDelete(id) == pending \ {id}

\* approveRequest (lines 53-69)
approveRequest(id) ==
    /\ promise[id] # "none"
    /\ Called("approve", id)
    /\ IF id \notin pending
       THEN /\ lastCall' = [op |-> "approve", id |-> id, result |-> "not_found"]
            /\ UNCHANGED <<pending, armedTimeouts, promise, signals, wins>>
       ELSE /\ armedTimeouts' = approveRequestClearTimeout(id)
            /\ pending' = pending \ {id}
            /\ promise' = Settle(id, "approved")
            /\ signals' = [signals EXCEPT ![id] = @ + 1]
            /\ wins' = [wins EXCEPT ![id] = @ + 1]
            /\ lastCall' = [op |-> "approve", id |-> id, result |-> "ok"]
    /\ UNCHANGED expired
    /\ ApprovalOnly

\* rejectRequest (lines 74-84)
rejectRequest(id) ==
    /\ promise[id] # "none"
    /\ Called("reject", id)
    /\ IF id \notin pending
       THEN /\ lastCall' = [op |-> "reject", id |-> id, result |-> "not_found"]
            /\ UNCHANGED <<pending, armedTimeouts, promise, signals, wins>>
       ELSE /\ armedTimeouts' = armedTimeouts \ {id}
            /\ pending' = rejectRequestDelete(id)
            /\ promise' = Settle(id, "Rejected")
            /\ signals' = [signals EXCEPT ![id] = @ + 1]
            /\ wins' = [wins EXCEPT ![id] = @ + 1]
            /\ lastCall' = [op |-> "reject", id |-> id, result |-> "ok"]
    /\ UNCHANGED expired
    /\ ApprovalOnly

\* approveRequest or rejectRequest with an id no request ever had (lines
\* 54-57, 75-78): the call throws
UnknownIdCall(op) ==
    /\ lastCall' = [op |-> op, id |-> 0, result |-> "not_found"]
    /\ UNCHANGED <<pending, armedTimeouts, promise, expired, signals, wins,
                   callsOn, first>>
    /\ ApprovalOnly

\* cleanupExpired (lines 112-133): every pending entry whose expiresAt lies
\* before now is deleted and its timeout cleared; the number is returned
cleanupExpired ==
    LET idsToDelete == {id \in pending : id \in expired}
    IN  /\ pending' = pending \ idsToDelete
        /\ armedTimeouts' = armedTimeouts \ idsToDelete
        /\ lastCall' = [op |-> "cleanup", id |-> 0,
                        result |-> IF idsToDelete = {} THEN "0" ELSE "cleaned"]
        /\ UNCHANGED <<promise, expired, signals, wins, callsOn, first>>
        /\ ApprovalOnly

ApprovalNext ==
    \/ \E id \in RequestIds : requestApproval(id)
    \/ \E id \in RequestIds : ClockPassesExpiry(id)
    \/ \E id \in RequestIds : TimeoutFires(id)
    \/ \E id \in RequestIds : approveRequest(id)
    \/ \E id \in RequestIds : rejectRequest(id)
    \/ \E op \in {"approve", "reject"} : UnknownIdCall(op)
    \/ cleanupExpired

(***************************************************************************)
(* Claims about the approval handler.                                      *)
(***************************************************************************)
\* the outcome an approve or a reject gives the requester
OutcomeOf(op) == IF op = "approve" THEN "approved" ELSE "Rejected"

\* C4, state part: at most one approve or reject on an id succeeds, the one
\* that succeeds is the first call on the id, a first call that found the
\* request pending has succeeded and its kind is the requester's outcome, and
\* a call that succeeded in the last step was the first call on its id
C4_FirstWins ==
    /\ \A id \in RequestIds :
          /\ wins[id] <= 1
          /\ wins[id] = 1 => (first[id].op # "none" /\ first[id].found)
          /\ (first[id].op # "none" /\ first[id].found)
                => (wins[id] = 1 /\ promise[id] = OutcomeOf(first[id].op))
    /\ (lastCall.op \in {"approve", "reject"} /\ lastCall.result = "ok")
          => callsOn[lastCall.id] = 1
    /\ (lastCall.op \in {"approve", "reject"} /\ lastCall.id # 0
            /\ callsOn[lastCall.id] = 2)
          => lastCall.result = "not_found"

\* C4, step part: an approve or reject that fails with not_found changes
\* nothing of the handler
C4_FailedCallChangesNothing ==
    (lastCall'.op \in {"approve", "reject"} /\ lastCall'.result = "not_found")
        => UNCHANGED <<pending, armedTimeouts, promise, signals, wins>>

C5_RemovedMeansSignalled ==
    \A id \in RequestIds :
        (promise[id] # "none" /\ id \notin pending) => promise[id] # "unsettled"

\* the state of a request; a request swept by cleanupExpired is expired
StateOf(id) ==
    IF id \in pending THEN "pending"
    ELSE IF promise[id] = "approved" THEN "approved"
    ELSE IF promise[id] = "Rejected" THEN "rejected"
    ELSE "expired"

\* C6, state part: a pending request is unsettled, a request that left
\* pending has no armed timeout, and the requester is signalled at most once
C6_OneState ==
    \A id \in RequestIds :
        /\ id \in pending => promise[id] = "unsettled"
        /\ id \in armedTimeouts => id \in pending
        /\ signals[id] <= 1
        /\ (promise[id] \in {"approved", "Rejected", "Timeout"}) => signals[id] = 1

\* C6, step part: a request that has left pending keeps its state and is not
\* signalled again
C6_Terminal ==
    \A id \in RequestIds :
        (promise[id] # "none" /\ id \notin pending)
            => /\ StateOf(id)' = StateOf(id)
               /\ promise'[id] = promise[id]
               /\ signals'[id] = signals[id]

\* C6: a request is in exactly one state, leaving pending is terminal, the
\* requester is signalled at most once: no timeout fires after approve or
\* reject, and no approve or reject after the timeout has an effect
C6_TerminalStates == [](C6_OneState) /\ [][C6_Terminal]_approvalVars

\* C6 witness: the expiry time of an approved request has passed, a later
\* reject on it has failed, and the request is still approved and signalled once
C6_Witness ==
    \E id \in RequestIds :
        /\ promise[id] = "approved"
        /\ id \in expired
        /\ signals[id] = 1
        /\ lastCall = [op |-> "reject", id |-> id, result |-> "not_found"]

(***************************************************************************)
(* SecurityClassifier (classifier.ts) and the pattern store (patterns.ts). *)
(*                                                                         *)
(* A command is a sequence of atoms: a word, a space, a word that is an    *)
(* http URL, or a word that is a host name; the host name of the last two  *)
(* is a sequence of labels. No word of the modelled commands holds a quote *)
(* and none but the words curl and ssh holds the name of a network tool.   *)
(***************************************************************************)
W(v) == [t |-> "w", v |-> v, host |-> <<>>]
SP == [t |-> "sp", v |-> " ", host |-> <<>>]
URL(host) == [t |-> "url", v |-> "http", host |-> host]
HOST(host) == [t |-> "host", v |-> "host", host |-> host]

EvilCom == <<"evil", "com">>
ApiExampleCom == <<"api", "example", "com">>
ExampleCom == <<"example", "com">>

\* the commands of the model
Commands ==
    { <<>>,
      <<SP>>,
      <<W("ls")>>,
      <<SP, W("ls")>>,
      <<W("ls"), SP, W(".env")>>,
      <<W("rm"), SP, W("-rf"), SP, W("x")>>,
      <<W("npm"), SP, W("install")>>,
      <<W("curl"), SP, URL(EvilCom)>>,
      <<W("curl"), SP, W("-I"), SP, URL(ApiExampleCom)>>,
      <<W("git"), SP, W("push"), SP, W("--force")>>,
      <<W("git"), SP, W("tag"), SP, W("x")>>,
      <<W("echo"), SP, URL(EvilCom)>>,
      <<W("ssh"), SP, HOST(ApiExampleCom)>>,
      <<W("deploy")>> }

IsSp(s, i) == i \in 1 .. Len(s) /\ s[i].t = "sp"
IsW(s, i, v) == i \in 1 .. Len(s) /\ s[i].t # "sp" /\ s[i].v = v
AtEnd(s, i) == i = Len(s) + 1

\* String.prototype.trim
RECURSIVE TrimLeft(_)
TrimLeft(s) == IF s # <<>> /\ Head(s).t = "sp" THEN TrimLeft(Tail(s)) ELSE s
RECURSIVE TrimRight(_)
TrimRight(s) == IF s # <<>> /\ s[Len(s)].t = "sp"
                THEN TrimRight(SubSeq(s, 1, Len(s) - 1)) ELSE s
trim(s) == TrimRight(TrimLeft(s))

\* the patterns of patterns.ts that match a command of the model, named by
\* list and source line, in the order of their lists
RED_PATTERNS == <<"red:187", "red:188", "red:216", "red:297">>
YELLOW_PATTERNS == <<"yellow:90", "yellow:103", "yellow:106", "yellow:154">>
GREEN_PATTERNS == <<"green:4", "green:27", "green:37", "green:62">>

\* pattern.test(s) of a built-in pattern
PatternTest(pat, s) ==
    CASE pat = "red:187" ->      \* /rm\s+-rf/
            \E i \in 1 .. Len(s) : IsW(s, i, "rm") /\ IsSp(s, i + 1)
                                      /\ IsW(s, i + 2, "-rf")
      [] pat = "red:188" ->      \* /rm\s+.*-r.*f/
            \E i \in 1 .. Len(s) : IsW(s, i, "rm") /\ IsSp(s, i + 1)
                                      /\ \E j \in i + 2 .. Len(s) : IsW(s, j, "-rf")
      [] pat = "red:216" ->      \* /\.env\b/
            \E i \in 1 .. Len(s) : IsW(s, i, ".env")
      [] pat = "red:297" ->      \* /^git\s+push\s+.*--force(?:-with-lease)?/
            /\ IsW(s, 1, "git") /\ IsSp(s, 2) /\ IsW(s, 3, "push") /\ IsSp(s, 4)
            /\ \E j \in 5 .. Len(s) : IsW(s, j, "--force")
      [] pat = "yellow:90" ->    \* /^npm\s+(install|i|ci|add)(?:\s|$)/
            /\ IsW(s, 1, "npm") /\ IsSp(s, 2) /\ IsW(s, 3, "install")
            /\ (IsSp(s, 4) \/ AtEnd(s, 4))
      [] pat = "yellow:103" ->   \* /^git\s+(push|pull|fetch|commit|...)/
            IsW(s, 1, "git") /\ IsSp(s, 2) /\ IsW(s, 3, "push")
      [] pat = "yellow:106" ->   \* /^git\s+tag\s/
            IsW(s, 1, "git") /\ IsSp(s, 2) /\ IsW(s, 3, "tag") /\ IsSp(s, 4)
      [] pat = "yellow:154" ->   \* /^curl\s+(?!.*-I|.*--head)/
            /\ IsW(s, 1, "curl") /\ IsSp(s, 2)
            /\ ~ \E j \in 3 .. Len(s) : IsW(s, j, "-I")
      [] pat = "green:4" ->      \* /^ls(\s|$)/
            IsW(s, 1, "ls") /\ (IsSp(s, 2) \/ AtEnd(s, 2))
      [] pat = "green:27" ->     \* /^echo\s/
            IsW(s, 1, "echo") /\ IsSp(s, 2)
      [] pat = "green:37" ->     \* /^git\s+(status|log|show|diff|branch|tag|...)/
            IsW(s, 1, "git") /\ IsSp(s, 2) /\ IsW(s, 3, "tag")
      [] pat = "green:62" ->     \* /^curl\s.*-I(?:\s|$)/
            /\ IsW(s, 1, "curl") /\ IsSp(s, 2)
            /\ \E j \in 3 .. Len(s) : IsW(s, j, "-I")
                                         /\ (IsSp(s, j + 1) \/ AtEnd(s, j + 1))
      [] OTHER -> FALSE

\* the index of the first pattern of a list that matches, 0 if none does
RECURSIVE FirstMatchFrom(_, _, _)
FirstMatchFrom(list, s, i) ==
    IF i > Len(list) THEN 0
    ELSE IF PatternTest(list[i], s) THEN i
    ELSE FirstMatchFrom(list, s, i + 1)
FirstMatch(list, s) == FirstMatchFrom(list, s, 1)

\* a custom pattern string: the word it looks for, whether it is anchored at
\* the start, the length of its source, whether it holds two adjacent
\* quantifiers, whether new RegExp accepts it
Pattern(src, w, anchored, len, quantifiers, compiles) ==
    [src |-> src, w |-> w, anchored |-> anchored, len |-> len,
     quantifiers |-> quantifiers, compiles |-> compiles]

MAX_PATTERN_LENGTH == 100

P_ls == Pattern("^ls", "ls", TRUE, 3, FALSE, TRUE)
P_rm == Pattern("rm", "rm", FALSE, 2, FALSE, TRUE)
P_curl == Pattern("^curl", "curl", TRUE, 5, FALSE, TRUE)
P_git == Pattern("^git", "git", TRUE, 4, FALSE, TRUE)
P_deploy == Pattern("deploy", "deploy", FALSE, 6, FALSE, TRUE)
P_lsQuantifiers == Pattern("^ls{1,2}{1,2}", "ls", TRUE, 13, TRUE, TRUE)
P_lsLong == Pattern("^ls(long)", "ls", TRUE, MAX_PATTERN_LENGTH + 1, FALSE, TRUE)
P_lsBroken == Pattern("^ls(", "ls", TRUE, 4, FALSE, FALSE)

\* validatePattern (lines 23-33)
validatePattern(pattern) ==
    /\ ~(pattern.len > MAX_PATTERN_LENGTH)
    /\ ~pattern.quantifiers

\* patternToRegex (lines 35-54): null (FALSE) for a rejected pattern and for
\* one that does not compile; the cache holds only compiled patterns
patternToRegex(pattern) == validatePattern(pattern) /\ pattern.compiles

\* regex.test of a compiled custom pattern
RegexTest(pattern, s) ==
    IF pattern.anchored THEN IsW(s, 1, pattern.w)
    ELSE \E i \in 1 .. Len(s) : IsW(s, i, pattern.w)

\* matchesPattern (lines 56-69)
matchesPattern(command, patterns) ==
    \E pattern \in patterns : patternToRegex(pattern) /\ RegexTest(pattern, command)

\* isDomainMatch (lines 86-96): equal, or domain ends with "." + blockedDomain
isDomainMatch(domain, blockedDomain) ==
    \/ domain = blockedDomain
    \/ /\ Len(domain) > Len(blockedDomain)
       /\ SubSeq(domain, Len(domain) - Len(blockedDomain) + 1, Len(domain))
              = blockedDomain

\* the first place where word v stands before a space, 0 if there is none
FirstTool(s, v) ==
    LET at == {i \in 1 .. Len(s) : IsW(s, i, v) /\ IsSp(s, i + 1)}
    IN  IF at = {} THEN 0 ELSE CHOOSE i \in at : \A j \in at : i <= j

\* (?:-[a-zA-Z]*\s+)* from place i on: the place behind the flags
RECURSIVE SkipFlags(_, _)
SkipFlags(s, i) ==
    IF (IsW(s, i, "-I") \/ IsW(s, i, "-rf")) /\ IsSp(s, i + 1)
    THEN SkipFlags(s, i + 2)
    ELSE i

\* lines 101-112: the argument of curl behind its flags, if new URL parses
\* it (wget and fetch are in no command of the model)
CurlDomains(s) ==
    LET i == FirstTool(s, "curl")
        j == IF i = 0 THEN 0 ELSE SkipFlags(s, i + 2)
    IN  IF i # 0 /\ j \in 1 .. Len(s) /\ s[j].t = "url"
        THEN <<s[j].host>> ELSE <<>>

\* lines 146-150: the word behind ssh up to its first character that is no
\* letter, digit, dot or hyphen (scp is in no command of the model)
SshDomains(s) ==
    LET i == FirstTool(s, "ssh")
    IN  IF i = 0 \/ ~(i + 2 \in 1 .. Len(s)) \/ IsSp(s, i + 2) THEN <<>>
        ELSE IF s[i + 2].t = "host" THEN <<s[i + 2].host>>
        ELSE <<<<s[i + 2].v>>>>

\* lines 152-159: the hosts of the embedded URLs that are not extracted yet
RECURSIVE EmbeddedUrls(_, _)
EmbeddedUrls(s, acc) ==
    IF s = <<>> THEN acc
    ELSE IF Head(s).t = "url" /\ ~ \E i \in 1 .. Len(acc) : acc[i] = Head(s).host
         THEN EmbeddedUrls(Tail(s), Append(acc, Head(s).host))
         ELSE EmbeddedUrls(Tail(s), acc)

\* [...new Set(domains)]
RECURSIVE Dedup(_, _)
Dedup(domains, acc) ==
    IF domains = <<>> THEN acc
    ELSE IF \E i \in 1 .. Len(acc) : acc[i] = Head(domains)
         THEN Dedup(Tail(domains), acc)
         ELSE Dedup(Tail(domains), Append(acc, Head(domains)))

\* extractDomainsFromCommand (lines 98-162); no command of the model has an
\* nc, python or node request
extractDomainsFromCommand(command) ==
    Dedup(EmbeddedUrls(command, CurlDomains(command) \o SshDomains(command)),
          <<>>)

Result(command, level, action, reason, matchedPattern) ==
    [command |-> command, level |-> level, action |-> action,
     reason |-> reason, matchedPattern |-> matchedPattern,
     requiresApproval |-> (action = "ask")]

NoRules == [blockedCommands |-> {}, allowedCommands |-> {},
            blockedDomains |-> {}, allowedDomains |-> {},
            autoApprovePatterns |-> {}]

\* the outcome of the domain loop (lines 200-232) from domain i on: "" when
\* no domain is refused
RECURSIVE DomainCheck(_, _, _)
DomainCheck(domains, rules, i) ==
    IF i > Len(domains) THEN ""
    ELSE IF \E b \in rules.blockedDomains : isDomainMatch(domains[i], b)
         THEN "Network access blocked to domain"
    ELSE IF /\ rules.allowedDomains # {}
            /\ ~ \E a \in rules.allowedDomains : isDomainMatch(domains[i], a)
         THEN "Network access to domain not in whitelist"
    ELSE DomainCheck(domains, rules, i + 1)

\* classifyCommand with the allowlist consulted before the blocklist
customBlockedAfterAllowed(trimmed, rules) ==
    /\ matchesPattern(trimmed, rules.blockedCommands)
    /\ ~matchesPattern(trimmed, rules.allowedCommands)

\* classifyCommand line 178: the command is on the user's blocklist
customBlocked(trimmed, rules) == matchesPattern(trimmed, rules.blockedCommands)

\* classifyCommand (lines 164-295); undefined custom rules and undefined
\* lists of them behave as empty lists
classifyCommand(command, rules) ==
    LET trimmed == trim(command)
        domainReason == DomainCheck(extractDomainsFromCommand(trimmed), rules, 1)
        red == FirstMatch(RED_PATTERNS, trimmed)
        yellow == FirstMatch(YELLOW_PATTERNS, trimmed)
        green == FirstMatch(GREEN_PATTERNS, trimmed)
    IN  IF command = <<>>
        THEN Result(command, "green", "allow", "Empty command", "")
        ELSE IF customBlocked(trimmed, rules)
        THEN Result(trimmed, "red", "block",
                    "Command blocked by custom security rules", "")
        ELSE IF matchesPattern(trimmed, rules.allowedCommands)
        THEN Result(trimmed, "green", "allow",
                    "Command allowed by custom security rules", "")
        ELSE IF domainReason # ""
        THEN Result(trimmed, "red", "block", domainReason, "")
        ELSE IF matchesPattern(trimmed, rules.autoApprovePatterns)
        THEN Result(trimmed, "green", "allow",
                    "Command auto-approved by custom patterns", "")
        ELSE IF red # 0
        THEN Result(trimmed, "red", "block",
                    "Command matched dangerous operation patterns",
                    RED_PATTERNS[red])
        ELSE IF yellow # 0
        THEN Result(trimmed, "yellow", "ask", "Command requires approval",
                    YELLOW_PATTERNS[yellow])
        ELSE IF green # 0
        THEN Result(trimmed, "green", "allow", "Command matched safe patterns",
                    GREEN_PATTERNS[green])
        ELSE Result(trimmed, "yellow", "ask",
                    "Unknown command - requires approval for safety", "")

\* the custom rule sets of the model: at most one pattern or domain a list
AtMostOne(S) == {{}} \cup {{x} : x \in S}

RuleSets ==
    [blockedCommands : AtMostOne({P_ls, P_deploy, P_lsQuantifiers, P_lsLong,
                                  P_lsBroken}),
     allowedCommands : AtMostOne({P_ls, P_curl, P_rm}),
     blockedDomains : AtMostOne({EvilCom}),
     allowedDomains : AtMostOne({ExampleCom}),
     autoApprovePatterns : AtMostOne({P_rm, P_git, P_deploy})]

(***************************************************************************)
(* A classifier instance: its custom rules, and the classifyCommand call of *)
(* the last step with the rules it ran under and its result (called FALSE: *)
(* the step was no such call).                                             *)
(***************************************************************************)
NotClassified == [called |-> FALSE, input |-> <<>>, rules |-> NoRules,
                  result |-> Result(<<>>, "none", "none", "", "")]

ClassifierInit ==
    /\ customRules = NoRules
    /\ classified = NotClassified

\* setCustomRules (lines 19-21)
setCustomRules(rules) ==
    /\ customRules' = rules
    /\ classified' = NotClassified
    /\ ClassifierOnly

\* a caller classifies a command with the rules set at that time
ClassifyCall(command) ==
    /\ classified' = [called |-> TRUE, input |-> command,
                      rules |-> customRules,
                      result |-> classifyCommand(command, customRules)]
    /\ UNCHANGED customRules
    /\ ClassifierOnly

ClassifierNext ==
    \/ \E rules \in RuleSets : setCustomRules(rules)
    \/ \E command \in Commands : ClassifyCall(command)

(***************************************************************************)
(* Claims about the classifier.                                            *)
(***************************************************************************)
\* the rule groups in the order of the specification, each with whether it
\* applies to the trimmed command t under rules r: a custom pattern list
\* applies if a pattern the classifier accepts matches, the domain rules if
\* an extracted domain is on the blocklist or misses a non-empty whitelist
GroupApplies(g, t, r) ==
    CASE g = 1 -> matchesPattern(t, r.blockedCommands)
      [] g = 2 -> matchesPattern(t, r.allowedCommands)
      [] g = 3 -> LET domains == extractDomainsFromCommand(t)
                  IN  \E i \in 1 .. Len(domains) :
                          \/ \E b \in r.blockedDomains :
                                 isDomainMatch(domains[i], b)
                          \/ /\ r.allowedDomains # {}
                             /\ \A a \in r.allowedDomains :
                                    ~isDomainMatch(domains[i], a)
      [] g = 4 -> matchesPattern(t, r.autoApprovePatterns)
      [] g = 5 -> \E i \in 1 .. Len(RED_PATTERNS) : PatternTest(RED_PATTERNS[i], t)
      [] g = 6 -> \E i \in 1 .. Len(YELLOW_PATTERNS) :
                      PatternTest(YELLOW_PATTERNS[i], t)
      [] g = 7 -> \E i \in 1 .. Len(GREEN_PATTERNS) :
                      PatternTest(GREEN_PATTERNS[i], t)
      [] OTHER -> TRUE

GroupOutcome ==
    << <<"red", "block">>, <<"green", "allow">>, <<"red", "block">>,
       <<"green", "allow">>, <<"red", "block">>, <<"yellow", "ask">>,
       <<"green", "allow">>, <<"yellow", "ask">> >>

Groups == 1 .. Len(GroupOutcome)

\* C10: the classification of a non-empty command is the outcome of the
\* first rule group, in the order custom blocked, custom allowed, domains,
\* auto-approve, built-in BLOCK, ASK, ALLOW, default, that applies to it
C10_ClassifierPrecedence ==
    (classified.called /\ classified.input # <<>>) =>
        \A g \in Groups :
            (/\ GroupApplies(g, trim(classified.input), classified.rules)
             /\ \A h \in Groups :
                    h < g => ~GroupApplies(h, trim(classified.input),
                                           classified.rules))
                => /\ classified.result.level = GroupOutcome[g][1]
                   /\ classified.result.action = GroupOutcome[g][2]

\* C10 witness: a command on the custom blocklist that a built-in ALLOW
\* pattern matches has been classified red/block
C10_Witness ==
    /\ classified.called
    /\ GroupApplies(1, trim(classified.input), classified.rules)
    /\ GroupApplies(7, trim(classified.input), classified.rules)
    /\ ~GroupApplies(5, trim(classified.input), classified.rules)
    /\ classified.result.level = "red"
    /\ classified.result.action = "block"

\* C11: a command that is empty or consists only of whitespace is classified
\* green/allow with the reason "Empty command", whatever the custom rules
C11_EmptyCommandAllowed ==
    (classified.called /\ trim(classified.input) = <<>>)
        => /\ classified.result.level = "green"
           /\ classified.result.action = "allow"
           /\ classified.result.reason = "Empty command"

(***************************************************************************)
(* The security before-hook (security-hook.ts) with the stores it uses:    *)
(* AuditStore (audit-store.ts), RateLimiter (rate-limiter.ts) and          *)
(* AnomalyDetector (anomaly-detector.ts), as index.ts wires them. The maps *)
(* of the limiter and the detector are keyed by userId; the model follows  *)
(* the hook calls of one user.                                             *)
(*   entries         the audit entries, newest first                       *)
(*   stats           the statistics updateStats keeps                      *)
(*   uuids           the number of ids randomUUID has produced; the id of  *)
(*                   an entry is the number of its draw                    *)
(*   buckets         the rate limit bucket of the user                     *)
(*   baselines       the anomaly baseline of the user                      *)
(*   recentCommands  the recent commands of the user, oldest first, each   *)
(*                   with the age of its timestamp ("second": less than    *)
(*                   1 s, "hour": less than 1 h, "old") and its hour of    *)
(*                   the day                                               *)
(*   hour            the current hour of the day                           *)
(*   hookCalls       the hook invocations that are suspended at an await,  *)
(*                   a bag of call records                                 *)
(*   hookStarted     the number of hook invocations so far                 *)
(*   hookReturn      what the hook invocation that ended in the last step  *)
(*                   returned (kind "none": none ended)                    *)
(***************************************************************************)
\* number of before_tool_call events followed in one behaviour
MaxHookCalls == 2
\* config.maxRequests of the rate limiter (index.ts configures 30)
RateLimitMaxRequests == 1

MAX_ENTRIES == 10000
MinBaselineEntries == 10
MaxRecentCommands == 100

Hours == {3, 12}

Levels == {"green", "yellow", "red"}
Actions == {"allow", "ask", "block"}

\* a reason text with the anomaly score and factors a template puts into it
Reason(text, score, factors) ==
    [text |-> text, score |-> score, factors |-> factors]

NoReason == Reason("", 0, <<>>)

(* AuditStore *)
NewEntry(id, command, level, action, reason) ==
    [id |-> id, command |-> command, level |-> level, action |-> action,
     reason |-> reason, approved |-> FALSE]

\* updateStats (lines 157-182); approvalRate is the pair of the approved
\* and the asked entries, <<0, 1>> for the rate 0 without asked entries
updateStats(es) ==
    LET asked == {i \in 1 .. Len(es) : es[i].action = "ask"}
        approved == {i \in asked : es[i].approved}
    IN  [total |-> Len(es),
         byLevel |-> [l \in Levels |->
                         Cardinality({i \in 1 .. Len(es) : es[i].level = l})],
         byAction |-> [a \in Actions |->
                         Cardinality({i \in 1 .. Len(es) : es[i].action = a})],
         approvalRate |-> IF Cardinality(asked) > 0
                          THEN <<Cardinality(approved), Cardinality(asked)>>
                          ELSE <<0, 1>>]

\* createEntry without the trim of lines 41-43
createEntryKeepsAll(command, level, action, reason) ==
    LET entry == NewEntry(uuids + 1, command, level, action, reason)
    IN  /\ entries' = <<entry>> \o entries
        /\ stats' = updateStats(<<entry>> \o entries)
        /\ uuids' = uuids + 1

\* createEntry (lines 18-49): the entry gets a fresh id, is put in front,
\* the oldest entry is dropped beyond MAX_ENTRIES, the statistics are redone
createEntry(command, level, action, reason) ==
    LET entry == NewEntry(uuids + 1, command, level, action, reason)
        unshifted == <<entry>> \o entries
        kept == IF Len(unshifted) > MAX_ENTRIES
                THEN SubSeq(unshifted, 1, Len(unshifted) - 1)
                ELSE unshifted
    IN  /\ entries' = kept
        /\ stats' = updateStats(kept)
        /\ uuids' = uuids + 1

(* RateLimiter *)
NoBucket == [present |-> FALSE, count |-> 0, expired |-> FALSE]

\* check (lines 19-47) on the bucket of the user: the result and the bucket
\* it leaves
check(bucket) ==
    LET b == IF ~bucket.present \/ bucket.expired
             THEN [present |-> TRUE, count |-> 0, expired |-> FALSE]
             ELSE bucket
    IN  IF b.count >= RateLimitMaxRequests
        THEN [allowed |-> FALSE, remaining |-> 0, bucket |-> b]
        ELSE [allowed |-> TRUE,
              remaining |-> RateLimitMaxRequests - (b.count + 1),
              bucket |-> [b EXCEPT !.count = @ + 1]]

(* AnomalyDetector *)
NoBaseline == [present |-> FALSE, avgCommandsPerHour |-> 0,
               commonCommands |-> {}, start |-> 0, end |-> 0]

\* command.split(' ')[0]: the part of the command before its first space
RECURSIVE SplitHead(_)
SplitHead(command) ==
    IF command = <<>> \/ Head(command).t = "sp" THEN <<>>
    ELSE <<Head(command)>> \o SplitHead(Tail(command))

\* the factors in the order analyze tests them, with their weights in
\* hundredths
AddFactor(acc, applies, weight, text) ==
    IF applies
    THEN [score |-> acc.score + weight, factors |-> Append(acc.factors, text)]
    ELSE acc

\* analyze (lines 20-69): the result and the recent commands it leaves
analyze(baseline, recent, hr, command) ==
    LET recentCount == Cardinality({i \in 1 .. Len(recent) :
                                       recent[i].age # "old"})
        f1 == AddFactor([score |-> 0, factors |-> <<>>],
                        /\ baseline.present
                        /\ recentCount > baseline.avgCommandsPerHour * 3,
                        30, "Unusual command frequency spike")
        f2 == AddFactor(f1,
                        /\ baseline.present
                        /\ (hr < baseline.start \/ hr > baseline.end),
                        20, "Activity outside typical hours")
        f3 == AddFactor(f2,
                        /\ baseline.present
                        /\ ~ \E e \in baseline.commonCommands :
                                 e[1] = SplitHead(command),
                        20, "Uncommon command type")
        f4 == AddFactor(f3,
                        /\ Len(recent) >= 2
                        /\ recent[Len(recent)].age = "second",
                        15, "Rapid command succession")
        pushed == Append(recent, [command |-> command, age |-> "second",
                                  hour |-> hr])
    IN  [isAnomaly |-> f4.score >= 50,
         score |-> f4.score,
         factors |-> f4.factors,
         recommendation |-> IF f4.score >= 70 THEN "block"
                            ELSE IF f4.score >= 50 THEN "flag" ELSE "allow",
         recent |-> IF Len(pushed) > MaxRecentCommands THEN Tail(pushed)
                    ELSE pushed]

NoAnalysis == [isAnomaly |-> FALSE, score |-> 0, factors |-> <<>>,
               recommendation |-> "none", recent |-> <<>>]

Min(S) == CHOOSE x \in S : \A y \in S : x <= y
Max(S) == CHOOSE x \in S : \A y \in S : x >= y

\* the baseline updateBaseline (lines 71-96) computes
ComputedBaseline(recent) ==
    LET heads == {SplitHead(recent[i].command) : i \in 1 .. Len(recent)}
        hours == {recent[i].hour : i \in 1 .. Len(recent)}
    IN  [present |-> TRUE,
         avgCommandsPerHour |-> Cardinality({i \in 1 .. Len(recent) :
                                                recent[i].age # "old"}),
         commonCommands |->
             {<<h, Cardinality({i \in 1 .. Len(recent) :
                                   SplitHead(recent[i].command) = h})>> :
                 h \in heads},
         start |-> Min(hours),
         end |-> Max(hours)]

(* the before-hook *)
\* the commands the hook is called with
HookCommands ==
    { <<>>,
      <<SP>>,
      <<W("ls")>>,
      <<SP, W("ls")>>,
      <<W("rm"), SP, W("-rf"), SP, W("x")>>,
      <<W("curl"), SP, URL(EvilCom)>>,
      <<W("deploy")>> }

NoClassification == Result(<<>>, "none", "none", "", "")

\* the parameters a hook result carries: the markers added to event.params
\* and their values
Params(markers, auditEntryId, securityLevel, securityReason) ==
    [markers |-> markers, _auditEntryId |-> auditEntryId,
     _securityLevel |-> securityLevel, _securityReason |-> securityReason]

NoParams == Params({}, 0, "", NoReason)

\* a suspended hook invocation: its command, the await it stands at, and
\* the classification and anomaly analysis it holds
HookCallRecord(command, pc, classification, analysis) ==
    [command |-> command, pc |-> pc, classification |-> classification,
     analysis |-> analysis]

\* what a hook invocation returned: the path it left by, its command, the
\* ids of the audit entries it created, the classification and analysis it
\* had, and the result
Return(kind, path, call, created, blockReason, params) ==
    [kind |-> kind, path |-> path, command |-> call.command,
     created |-> created, classification |-> call.classification,
     analysis |-> call.analysis, blockReason |-> blockReason,
     params |-> params]

NoReturn ==
    Return("none", "none", HookCallRecord(<<>>, "none", NoClassification,
                                          NoAnalysis),
           {}, NoReason, NoParams)

HookInit ==
    /\ entries = <<>>
    /\ stats = updateStats(<<>>)
    /\ uuids = 0
    /\ buckets = NoBucket
    /\ baselines = NoBaseline
    /\ recentCommands \in
          { <<>>,
            [i \in 1 .. MinBaselineEntries |->
                [command |-> <<W("ls")>>, age |-> "old", hour |-> 12]] }
    /\ hour \in Hours
    /\ hookCalls = EmptyBag
    /\ hookStarted = 0
    /\ hookReturn = NoReturn

\* the anomaly escalation without its two promotions
EscalateNever(classification, analysis) ==
    [level |-> classification.level, action |-> classification.action,
     reason |-> Reason(classification.reason, 0, <<>>)]

\* the anomaly escalation promoting yellow as soon as an anomaly is reported
EscalateYellowOnAnomaly(classification, analysis) ==
    IF classification.level = "yellow" /\ analysis.isAnomaly
    THEN [level |-> "red", action |-> "block",
          reason |-> Reason("High anomaly score", analysis.score,
                            analysis.factors)]
    ELSE IF classification.level = "green" /\ analysis.isAnomaly
    THEN [level |-> "yellow", action |-> "ask",
          reason |-> Reason("Anomaly detected", 0, analysis.factors)]
    ELSE [level |-> classification.level, action |-> classification.action,
          reason |-> Reason(classification.reason, 0, <<>>)]

\* the anomaly escalation (lines 113-133): both tests read the level the
\* classifier gave
Escalate(classification, analysis) ==
    IF classification.level = "yellow" /\ analysis.score >= 70
    THEN [level |-> "red", action |-> "block",
          reason |-> Reason("High anomaly score", analysis.score,
                            analysis.factors)]
    ELSE IF classification.level = "green" /\ analysis.isAnomaly
    THEN [level |-> "yellow", action |-> "ask",
          reason |-> Reason("Anomaly detected", 0, analysis.factors)]
    ELSE [level |-> classification.level, action |-> classification.action,
          reason |-> Reason(classification.reason, 0, <<>>)]

\* a before_tool_call event arrives (lines 23-38): another tool or a command
\* without text passes; else the authorization check is started
HookCall(toolName, command) ==
    /\ hookStarted < MaxHookCalls
    /\ hookStarted' = hookStarted + 1
    /\ LET call == HookCallRecord(command, "isPlatformUserAuthorized",
                                  NoClassification, NoAnalysis)
       IN  IF toolName # "Bash" \/ command = <<>> \/ trim(command) = <<>>
           THEN /\ hookReturn' = Return("pass", "notShell", call, {},
                                        NoReason, NoParams)
                /\ UNCHANGED hookCalls
           ELSE /\ hookCalls' = hookCalls (+) SetToBag({call})
                /\ hookReturn' = NoReturn
    /\ UNCHANGED <<entries, stats, uuids, buckets, baselines, recentCommands,
                   hour>>
    /\ HookOnly

\* the authorization check resolved false (lines 39-59)
HookNotAuthorized(c) ==
    /\ c.pc = "isPlatformUserAuthorized"
    /\ createEntry(c.command, "red", "block",
                   Reason("User not authorized", 0, <<>>))
    /\ hookCalls' = hookCalls (-) SetToBag({c})
    /\ hookReturn' = Return("block", "notAuthorized", c, {uuids + 1},
                            Reason("You don't have access", 0, <<>>),
                            NoParams)
    /\ UNCHANGED <<buckets, baselines, recentCommands, hour, hookStarted>>
    /\ HookOnly

\* the authorization check raised an error (lines 60-67)
HookAuthorizationError(c) ==
    /\ c.pc = "isPlatformUserAuthorized"
    /\ hookCalls' = hookCalls (-) SetToBag({c})
    /\ hookReturn' = Return("block", "authorizationError", c, {},
                            Reason("Authorization check failed", 0, <<>>),
                            NoParams)
    /\ UNCHANGED <<entries, stats, uuids, buckets, baselines, recentCommands,
                   hour, hookStarted>>
    /\ HookOnly

\* authorized, and detectPromptInjection reports an injection with a
\* confidence above 0.5 (lines 71-92)
HookInjectionDetected(c) ==
    /\ c.pc = "isPlatformUserAuthorized"
    /\ createEntry(c.command, "red", "block",
                   Reason("Prompt injection detected", 0, <<>>))
    /\ hookCalls' = hookCalls (-) SetToBag({c})
    /\ hookReturn' = Return("block", "injection", c, {uuids + 1},
                            Reason("Security blocked", 0, <<>>), NoParams)
    /\ UNCHANGED <<buckets, baselines, recentCommands, hour, hookStarted>>
    /\ HookOnly

\* authorized, and detectPromptInjection throws: the catch of lines 183-191
HookInjectionThrows(c) ==
    /\ c.pc = "isPlatformUserAuthorized"
    /\ hookCalls' = hookCalls (-) SetToBag({c})
    /\ hookReturn' = Return("params", "classificationError", c, {}, NoReason,
                            Params({"_classificationError"}, 0, "", NoReason))
    /\ UNCHANGED <<entries, stats, uuids, buckets, baselines, recentCommands,
                   hour, hookStarted>>
    /\ HookOnly

\* authorized and no injection: the rate limit check (lines 95-106), then
\* the classification and the call of analyze (lines 109-118), whose result
\* the hook awaits
HookRateLimitClassifyAnalyze(c) ==
    /\ c.pc = "isPlatformUserAuthorized"
    /\ LET rateLimitCheck == check(buckets)
           anomalyAnalysis == analyze(baselines, recentCommands, hour,
                                      c.command)
       IN  /\ buckets' = rateLimitCheck.bucket
           /\ IF ~rateLimitCheck.allowed
              THEN /\ hookCalls' = hookCalls (-) SetToBag({c})
                   /\ hookReturn' = Return("block", "rateLimited", c, {},
                                           Reason("Rate limit exceeded", 0,
                                                  <<>>),
                                           NoParams)
                   /\ UNCHANGED recentCommands
              ELSE /\ hookCalls' =
                          (hookCalls (-) SetToBag({c})) (+)
                          SetToBag({HookCallRecord(
                              c.command, "analyze",
                              classifyCommand(c.command, NoRules),
                              [anomalyAnalysis EXCEPT !.recent = <<>>])})
                   /\ hookReturn' = NoReturn
                   /\ recentCommands' = anomalyAnalysis.recent
    /\ UNCHANGED <<entries, stats, uuids, baselines, hour, hookStarted>>
    /\ HookOnly

\* behind the await of analyze (lines 120-182): escalation, the audit entry
\* and the result by the final action
HookAfterAnalyze(c) ==
    /\ c.pc = "analyze"
    /\ LET final == Escalate(c.classification, c.analysis)
           id == uuids + 1
       IN  /\ createEntry(c.command, final.level, final.action, final.reason)
           /\ hookReturn' =
                 IF final.action = "block"
                 THEN Return("block", "classified", c, {id},
                             Reason("Command blocked for security",
                                    final.reason.score, final.reason.factors),
                             NoParams)
                 ELSE IF final.action = "ask"
                 THEN Return("params", "classified", c, {id}, NoReason,
                             Params({"_auditEntryId", "_securityLevel",
                                     "_securityReason"},
                                    id, final.level, final.reason))
                 ELSE Return("params", "classified", c, {id}, NoReason,
                             Params({"_auditEntryId"}, id, "", NoReason))
    /\ hookCalls' = hookCalls (-) SetToBag({c})
    /\ UNCHANGED <<buckets, baselines, recentCommands, hour, hookStarted>>
    /\ HookOnly

\* time passes: at least a second, at least the window of the rate limiter
\* (index.ts: one minute), or at least an hour
TimePasses(span, nextHour) ==
    /\ span # "hour" => nextHour = hour
    /\ recentCommands' =
          [i \in 1 .. Len(recentCommands) |->
              [recentCommands[i] EXCEPT
                  !.age = IF span = "hour" THEN "old"
                          ELSE IF @ = "second" THEN "hour" ELSE @]]
    /\ buckets' = IF span # "second" /\ buckets.present
                  THEN [buckets EXCEPT !.expired = TRUE]
                  ELSE buckets
    /\ hour' = nextHour
    /\ hookReturn' = NoReturn
    /\ UNCHANGED <<entries, stats, uuids, baselines, hookCalls, hookStarted>>
    /\ HookOnly

\* updateBaseline (lines 71-96), called by the gateway method
\* carapace.security.anomaly.updateBaseline
updateBaseline ==
    /\ baselines' = IF Len(recentCommands) < MinBaselineEntries
                    THEN baselines
                    ELSE ComputedBaseline(recentCommands)
    /\ hookReturn' = NoReturn
    /\ UNCHANGED <<entries, stats, uuids, buckets, recentCommands, hour,
                   hookCalls, hookStarted>>
    /\ HookOnly

HookNext ==
    \/ \E toolName \in {"Bash", "Read"}, command \in HookCommands :
           HookCall(toolName, command)
    \/ \E c \in BagToSet(hookCalls) : HookNotAuthorized(c)
    \/ \E c \in BagToSet(hookCalls) : HookAuthorizationError(c)
    \/ \E c \in BagToSet(hookCalls) : HookInjectionDetected(c)
    \/ \E c \in BagToSet(hookCalls) : HookInjectionThrows(c)
    \/ \E c \in BagToSet(hookCalls) : HookRateLimitClassifyAnalyze(c)
    \/ \E c \in BagToSet(hookCalls) : HookAfterAnalyze(c)
    \/ \E span \in {"second", "window", "hour"}, nextHour \in Hours :
           TimePasses(span, nextHour)
    \/ updateBaseline

(***************************************************************************)
(* Claims about the before-hook.                                           *)
(***************************************************************************)
\* the audit entries the hook invocation that just returned has created
CreatedEntries ==
    {i \in 1 .. Len(entries) : entries[i].id \in hookReturn.created}

\* the final tier and action of a classification under an anomaly analysis:
\* green with an anomaly is promoted to yellow/ask, yellow with a score of
\* at least 0.7 to red/block
FinalTier(classification, analysis) ==
    IF classification.level = "green" /\ analysis.isAnomaly
    THEN <<"yellow", "ask">>
    ELSE IF classification.level = "yellow" /\ analysis.score >= 70
    THEN <<"red", "block">>
    ELSE <<classification.level, classification.action>>

FinalReasonText(classification, analysis) ==
    IF classification.level = "green" /\ analysis.isAnomaly
    THEN "Anomaly detected"
    ELSE IF classification.level = "yellow" /\ analysis.score >= 70
    THEN "High anomaly score"
    ELSE classification.reason

\* C8: a hook invocation that passed authorization, injection detection and
\* the rate limit has created exactly one audit entry, which carries the
\* final tier, action and reason after the anomaly escalation; it returns
\* block exactly if the final action is block, and else the parameters with
\* the id of that entry, and with the tier and reason if the action is ask
C8_OneAuditEntryWithFinalValues ==
    hookReturn.path = "classified" =>
        LET final == FinalTier(hookReturn.classification, hookReturn.analysis)
            text == FinalReasonText(hookReturn.classification,
                                    hookReturn.analysis)
        IN  /\ Cardinality(hookReturn.created) = 1
            /\ Cardinality(CreatedEntries) = 1
            /\ \A i \in CreatedEntries :
                  /\ entries[i].command = hookReturn.command
                  /\ entries[i].level = final[1]
                  /\ entries[i].action = final[2]
                  /\ entries[i].reason.text = text
                  /\ (hookReturn.kind = "block") <=> (final[2] = "block")
                  /\ final[2] # "block" =>
                        /\ hookReturn.kind = "params"
                        /\ "_auditEntryId" \in hookReturn.params.markers
                        /\ hookReturn.params._auditEntryId = entries[i].id
                  /\ final[2] = "ask" =>
                        /\ hookReturn.params.markers =
                              {"_auditEntryId", "_securityLevel",
                               "_securityReason"}
                        /\ hookReturn.params._securityLevel = final[1]
                        /\ hookReturn.params._securityReason.text = text
                  /\ final[2] = "allow" =>
                        hookReturn.params.markers = {"_auditEntryId"}

\* C8 witness: a command the classifier found green has been promoted by an
\* anomaly, and the hook has returned the parameters with the id, tier and
\* reason of its one audit entry
C8_Witness ==
    /\ hookReturn.path = "classified"
    /\ hookReturn.kind = "params"
    /\ hookReturn.classification.level = "green"
    /\ hookReturn.analysis.isAnomaly
    /\ hookReturn.params._securityLevel = "yellow"
    /\ \E i \in CreatedEntries : entries[i].level = "yellow"

\* C9: when the hook blocks because authorization was denied, because the
\* authorization check raised an error, or because an injection was
\* detected, it has created a red/block audit entry for the command
C9_AuditBeforeBlock ==
    (/\ hookReturn.kind = "block"
     /\ hookReturn.path \in {"notAuthorized", "authorizationError",
                             "injection"})
        => \E i \in CreatedEntries :
               /\ entries[i].command = hookReturn.command
               /\ entries[i].level = "red"
               /\ entries[i].action = "block"

\* the severity order of the tiers
TierRank(level) ==
    IF level = "green" THEN 0 ELSE IF level = "yellow" THEN 1 ELSE 2

\* C12: the anomaly escalation only raises severity: the audit entry of a
\* command classified green with an anomaly reported is yellow/ask, of a
\* command classified yellow with a score of at least 0.7 red/block, of a
\* command classified red red/block, and in every other case it has the tier
\* and action of the classifier; its tier is never below the classifier's
C12_EscalationOnlyRaises ==
    hookReturn.path = "classified" =>
        LET cls == hookReturn.classification
            an == hookReturn.analysis
        IN  \A i \in CreatedEntries :
              /\ (cls.level = "green" /\ an.isAnomaly) =>
                    entries[i].level = "yellow" /\ entries[i].action = "ask"
              /\ (cls.level = "yellow" /\ an.score >= 70) =>
                    entries[i].level = "red" /\ entries[i].action = "block"
              /\ cls.level = "red" =>
                    entries[i].level = "red" /\ entries[i].action = "block"
              /\ (/\ ~(cls.level = "green" /\ an.isAnomaly)
                  /\ ~(cls.level = "yellow" /\ an.score >= 70)) =>
                    /\ entries[i].level = cls.level
                    /\ entries[i].action = cls.action
              /\ TierRank(entries[i].level) >= TierRank(cls.level)

\* C12 witness: a command the classifier found yellow, analysed with a score
\* of at least 0.7, has been audited and blocked as red
C12_Witness ==
    /\ hookReturn.path = "classified"
    /\ hookReturn.classification.level = "yellow"
    /\ hookReturn.analysis.score >= 70
    /\ hookReturn.kind = "block"
    /\ \E i \in CreatedEntries :
          entries[i].level = "red" /\ entries[i].action = "block"

\* C36: every non-empty shell command the hook passes on (it returns
\* parameters, not block) carries the id of an existing audit entry for that
\* command, also when the hook left through its catch
C36_PassedCommandHasAuditEntry ==
    hookReturn.kind = "params" =>
        /\ "_auditEntryId" \in hookReturn.params.markers
        /\ \E i \in 1 .. Len(entries) :
              /\ entries[i].id = hookReturn.params._auditEntryId
              /\ entries[i].command = hookReturn.command

(***************************************************************************)
(* RateLimiter (part_005) under a clock, called by the before-hook and by   *)
(* the gateway methods carapace.security.rateLimit.status and .reset        *)
(* (index.ts).  Ids are sequences of characters, a key is an id or          *)
(* id ":" channel; the clock counts in units of which the window has        *)
(* WindowMs.                                                                *)
(***************************************************************************)
MaxTime == 3
MaxConfiguredRequests == 2
WindowMs == 2

\* two users, the id of one a prefix of the id of the other
UserIds == {<<"a">>, <<"a", "b">>}
\* no channel (undefined), or a channel
NoChannel == <<>>
ChannelIds == {NoChannel, <<"c">>}

\* the key check computes (lines 20-22)
BucketKey(cfg, userId, channelId) ==
    IF cfg.perChannel /\ channelId # NoChannel
    THEN userId \o <<":">> \o channelId
    ELSE userId

\* the callers of check: each user without channel, the first user also in
\* a channel
Callers ==
    {<<u, c>> \in UserIds \X ChannelIds : c = NoChannel \/ u = <<"a">>}

BucketKeys ==
    {BucketKey([perChannel |-> pc], r[1], r[2]) :
        pc \in BOOLEAN, r \in Callers}

\* key.startsWith(userId)
startsWith(key, userId) ==
    /\ Len(key) >= Len(userId)
    /\ SubSeq(key, 1, Len(userId)) = userId

NoLimiterBucket == [present |-> FALSE, count |-> 0, resetAt |-> 0]

NotChecked ==
    [op |-> "none", key |-> <<>>, at |-> 0, before |-> NoLimiterBucket,
     after |-> NoLimiterBucket, allowed |-> FALSE, remaining |-> 0,
     resetAt |-> 0, retryAfterMs |-> 0]

LimiterInit ==
    /\ config \in [windowMs : {WindowMs},
                   maxRequests : 0 .. MaxConfiguredRequests,
                   perChannel : BOOLEAN]
    /\ limiterBuckets = [k \in BucketKeys |-> NoLimiterBucket]
    /\ now = 0
    /\ allowedInWindow = [k \in BucketKeys |-> 0]
    /\ checked = NotChecked

\* check that does not count the request it allows
checkAtKeepsCount(cfg, bucket, t) ==
    LET b == IF ~bucket.present \/ bucket.resetAt <= t
             THEN [present |-> TRUE, count |-> 0,
                   resetAt |-> t + cfg.windowMs]
             ELSE bucket
    IN  IF b.count >= cfg.maxRequests
        THEN [allowed |-> FALSE, remaining |-> 0, resetAt |-> b.resetAt,
              retryAfterMs |-> b.resetAt - t, bucket |-> b]
        ELSE [allowed |-> TRUE, remaining |-> cfg.maxRequests - b.count,
              resetAt |-> b.resetAt, retryAfterMs |-> 0, bucket |-> b]

\* check that opens a fresh window only for a key without bucket
checkAtKeepsWindow(cfg, bucket, t) ==
    LET b == IF ~bucket.present
             THEN [present |-> TRUE, count |-> 0,
                   resetAt |-> t + cfg.windowMs]
             ELSE bucket
    IN  IF b.count >= cfg.maxRequests
        THEN [allowed |-> FALSE, remaining |-> 0, resetAt |-> b.resetAt,
              retryAfterMs |-> b.resetAt - t, bucket |-> b]
        ELSE [allowed |-> TRUE, remaining |-> cfg.maxRequests - (b.count + 1),
              resetAt |-> b.resetAt, retryAfterMs |-> 0,
              bucket |-> [b EXCEPT !.count = @ + 1]]

\* check (lines 24-46) at time t on the bucket of a key: the result, and the
\* bucket it leaves; retryAfterMs is 0 where the result has none
checkAt(cfg, bucket, t) ==
    LET b == IF ~bucket.present \/ bucket.resetAt <= t
             THEN [present |-> TRUE, count |-> 0,
                   resetAt |-> t + cfg.windowMs]
             ELSE bucket
    IN  IF b.count >= cfg.maxRequests
        THEN [allowed |-> FALSE, remaining |-> 0, resetAt |-> b.resetAt,
              retryAfterMs |-> b.resetAt - t, bucket |-> b]
        ELSE [allowed |-> TRUE, remaining |-> cfg.maxRequests - (b.count + 1),
              resetAt |-> b.resetAt, retryAfterMs |-> 0,
              bucket |-> [b EXCEPT !.count = @ + 1]]

\* a call rateLimiter.check(userId, channelId) (lines 19-47) by op
LimiterCheck(op, userId, channelId) ==
    LET key == BucketKey(config, userId, channelId)
        res == checkAt(config, limiterBuckets[key], now)
        fresh == \/ ~limiterBuckets[key].present
                 \/ limiterBuckets[key].resetAt # res.bucket.resetAt
    IN  /\ limiterBuckets' = [limiterBuckets EXCEPT ![key] = res.bucket]
        /\ allowedInWindow' =
              [allowedInWindow EXCEPT
                  ![key] = (IF fresh THEN 0 ELSE @) +
                           (IF res.allowed THEN 1 ELSE 0)]
        /\ checked' = [op |-> op, key |-> key, at |-> now,
                       before |-> limiterBuckets[key], after |-> res.bucket,
                       allowed |-> res.allowed, remaining |-> res.remaining,
                       resetAt |-> res.resetAt,
                       retryAfterMs |-> res.retryAfterMs]
        /\ UNCHANGED <<config, now>>

\* the rate limit check of the before-hook for a shell command
\* (security-hook.ts lines 94-106)
HookRateLimitCheck(userId, channelId) ==
    /\ LimiterCheck("hook", userId, channelId)
    /\ LimiterOnly

\* the gateway method carapace.security.rateLimit.status (index.ts lines
\* 254-279) with a userId
RateLimitStatus(userId, channelId) ==
    /\ LimiterCheck("status", userId, channelId)
    /\ LimiterOnly

\* reset (lines 49-58), called by carapace.security.rateLimit.reset
reset(userId) ==
    /\ limiterBuckets' =
          [k \in BucketKeys |-> IF startsWith(k, userId)
                                THEN NoLimiterBucket
                                ELSE limiterBuckets[k]]
    /\ allowedInWindow' =
          [k \in BucketKeys |-> IF startsWith(k, userId) THEN 0
                                ELSE allowedInWindow[k]]
    /\ checked' = [NotChecked EXCEPT !.op = "reset", !.key = userId]
    /\ UNCHANGED <<config, now>>
    /\ LimiterOnly

\* Date.now() advances
ClockAdvances ==
    /\ now < MaxTime
    /\ now' = now + 1
    /\ checked' = NotChecked
    /\ UNCHANGED <<config, limiterBuckets, allowedInWindow>>
    /\ LimiterOnly

LimiterNext ==
    \/ \E r \in Callers : HookRateLimitCheck(r[1], r[2])
    \/ \E r \in Callers : RateLimitStatus(r[1], r[2])
    \/ \E userId \in UserIds : reset(userId)
    \/ ClockAdvances

(***************************************************************************)
(* Claims about the rate limiter.                                          *)
(***************************************************************************)
\* the last step was a call of check
CheckCalled == checked.op \in {"hook", "status"}

\* the call of check found no bucket that is still in its window
FoundFresh ==
    ~checked.before.present \/ checked.before.resetAt <= checked.at

\* the count the call of check started from
CountBefore == IF FoundFresh THEN 0 ELSE checked.before.count

\* C13: for every key, at most maxRequests calls of check since the creation
\* of its bucket have returned allowed; an allowed call increments the count
\* by one and returns remaining = maxRequests - count; a denied call leaves
\* the count unchanged and returns remaining = 0 and
\* retryAfterMs = resetAt - now > 0
C13_AtMostMaxRequestsPerWindow ==
    /\ \A k \in BucketKeys : allowedInWindow[k] <= config.maxRequests
    /\ (CheckCalled /\ checked.allowed) =>
          /\ checked.after.count = CountBefore + 1
          /\ checked.remaining = config.maxRequests - checked.after.count
    /\ (CheckCalled /\ ~checked.allowed) =>
          /\ checked.after.count = CountBefore
          /\ checked.remaining = 0
          /\ checked.retryAfterMs = checked.after.resetAt - checked.at
          /\ checked.retryAfterMs > 0

\* C13 witness: with two requests a window, a call is denied in a window in
\* which two calls were allowed
C13_Witness ==
    /\ CheckCalled
    /\ ~checked.allowed
    /\ config.maxRequests = MaxConfiguredRequests
    /\ allowedInWindow[checked.key] = config.maxRequests
    /\ checked.retryAfterMs > 0

\* C14: with maxRequests > 0, a call of check at or after the resetAt of the
\* bucket replaces it by a fresh window (resetAt = now + windowMs, the count
\* counted from zero) and returns allowed
C14_FreshWindowAfterReset ==
    (/\ CheckCalled
     /\ config.maxRequests > 0
     /\ checked.before.present
     /\ checked.before.resetAt <= checked.at)
        => /\ checked.allowed
           /\ checked.after.resetAt = checked.at + config.windowMs
           /\ checked.after.count = 1
           /\ checked.remaining = config.maxRequests - 1

\* C14 witness: a bucket that had used all its requests is replaced after
\* its resetAt, and the call is allowed
C14_Witness ==
    /\ CheckCalled
    /\ config.maxRequests > 0
    /\ checked.before.present
    /\ checked.before.count = config.maxRequests
    /\ checked.before.resetAt <= checked.at
    /\ checked.allowed
    /\ checked.after.resetAt > checked.before.resetAt

\* C15: the gateway method carapace.security.rateLimit.status has no effect
\* on the bucket of the subject: the count of a bucket in its window is the
\* same after the call as before
C15_StatusLeavesBucket ==
    (checked.op = "status" /\ ~FoundFresh)
        => checked.after.count = checked.before.count

\* a bucket of the user: the per-user bucket or one of the user's channels
BucketOf(key, userId) ==
    key = userId \/ startsWith(key, userId \o <<":">>)

\* C38: reset(u) removes every bucket of u, the per-user bucket and the
\* buckets u:channel, and leaves the buckets of every other user as they
\* are, also of a user whose id begins with u
C38_ResetOnlyThatUser ==
    [][checked'.op = "reset" =>
          \A k \in BucketKeys :
              IF BucketOf(k, checked'.key)
              THEN ~limiterBuckets'[k].present
              ELSE limiterBuckets'[k] = limiterBuckets[k]]_vars

(***************************************************************************)
(* CronScheduler (part_008) with the gateway methods carapace.cron.create, *)
(* .delete, .pause and .resume (carapace-cron/index.ts) and the job store   *)
(* (job-store.ts).  A job object is shared by the store's cache, the        *)
(* scheduler's timers and the running executions.  A timer is the one its   *)
(* job's entry of scheduledTasks refers to, or an armed timer no entry      *)
(* refers to any more.  Executor.execute is not part of the sources: an     *)
(* invocation resolves, rejects, or is still running when the execution     *)
(* timeout wins the race.                                                   *)
(***************************************************************************)
MaxJobs == 2
MaxStarts == 2
MaxRpcCalls == 2
maxConcurrentExecutions == 1
maxRetries == 1

JobIds == 1 .. MaxJobs

\* a job object; lastError is "none" for undefined. History: sinceSuccess
\* counts the failures of the job since its last success
NoJob == [created |-> FALSE, enabled |-> FALSE, executionCount |-> 0,
          failureCount |-> 0, lastError |-> "none", sinceSuccess |-> 0]

NewJob == [NoJob EXCEPT !.created = TRUE, !.enabled = TRUE]

\* a time a timer is armed for: "cron" the next time of the cron
\* expression, "cronAfter" the time after that, "now", or "backoff" with n
\* for now + backoffMs * n
At(kind, n) == [kind |-> kind, n |-> n]

\* an entry of scheduledTasks: whether its timer is still armed, and the
\* time it was armed for
Task(armed, nextExecution) ==
    [present |-> TRUE, armed |-> armed, nextExecution |-> nextExecution]

NoTask == [present |-> FALSE, armed |-> FALSE, nextExecution |-> At("none", 0)]

Event(kind, job, n, flag) ==
    [kind |-> kind, job |-> job, n |-> n, flag |-> flag]

NoEvent == Event("none", 0, 0, FALSE)

CronInit ==
    /\ jobs = [j \in JobIds |-> NoJob]
    /\ stored = [j \in JobIds |-> NoJob]
    /\ scheduledTasks = [j \in JobIds |-> NoTask]
    /\ orphanTimers = [j \in JobIds |-> 0]
    /\ activeExecutions = 0
    /\ executions = EmptyBag
    /\ abandoned = 0
    /\ rpcs = EmptyBag
    /\ starts = [j \in JobIds |-> 0]
    /\ rpcStarted = 0
    /\ waiting = [j \in JobIds |-> FALSE]
    /\ unscheduled = [j \in JobIds |-> FALSE]
    /\ paused = [j \in JobIds |-> FALSE]
    /\ cronEvent = NoEvent

\* unscheduleJob that leaves the entry in scheduledTasks
unscheduleJobKeepsEntry(tasks, jobId) ==
    IF tasks[jobId].present
    THEN [tasks EXCEPT ![jobId] = [@ EXCEPT !.armed = FALSE]]
    ELSE tasks

\* unscheduleJob (lines 152-158): the timer of the entry is cleared and the
\* entry deleted
unscheduleJob(tasks, jobId) ==
    [tasks EXCEPT ![jobId] = NoTask]

\* scheduleNext (lines 58-73): a timer is armed and the entry of the job set
\* to it; a timer the entry referred to before stays armed
scheduleNext(job, nextDate) ==
    /\ scheduledTasks' = [scheduledTasks EXCEPT ![job] = Task(TRUE, nextDate)]
    /\ orphanTimers' =
          [orphanTimers EXCEPT
              ![job] = @ + (IF scheduledTasks[job].armed THEN 1 ELSE 0)]

\* executeJob that drops the firing at capacity
executeJobDropsAtCapacity(job, tasksNow, orphansNow) ==
    IF activeExecutions >= maxConcurrentExecutions
    THEN /\ scheduledTasks' = tasksNow
         /\ orphanTimers' = orphansNow
         /\ waiting' = [waiting EXCEPT ![job] = TRUE]
         /\ cronEvent' = Event("requeue", job, 0, unscheduled[job])
         /\ UNCHANGED <<activeExecutions, executions, starts>>
    ELSE /\ starts[job] < MaxStarts
         /\ scheduledTasks' = tasksNow
         /\ orphanTimers' = orphansNow
         /\ activeExecutions' = activeExecutions + 1
         /\ executions' = executions (+) SetToBag({[job |-> job, pc |-> "race"]})
         /\ starts' = [starts EXCEPT ![job] = @ + 1]
         /\ waiting' = [waiting EXCEPT ![job] = FALSE]
         /\ cronEvent' = Event("start", job, IF waiting[job] THEN 1 ELSE 0,
                               unscheduled[job])

\* the executeJob call of a timer that fired (lines 75-91): at capacity the
\* job is scheduled again for now; else the execution starts and the
\* executor is invoked under the race with the execution timeout
executeJob(job, tasksNow, orphansNow) ==
    IF activeExecutions >= maxConcurrentExecutions
    THEN /\ scheduledTasks' = [tasksNow EXCEPT ![job] = Task(TRUE, At("now", 0))]
         /\ orphanTimers' =
               [orphansNow EXCEPT
                   ![job] = @ + (IF tasksNow[job].armed THEN 1 ELSE 0)]
         /\ waiting' = [waiting EXCEPT ![job] = TRUE]
         /\ cronEvent' = Event("requeue", job, 0, unscheduled[job])
         /\ UNCHANGED <<activeExecutions, executions, starts>>
    ELSE /\ starts[job] < MaxStarts
         /\ scheduledTasks' = tasksNow
         /\ orphanTimers' = orphansNow
         /\ activeExecutions' = activeExecutions + 1
         /\ executions' = executions (+) SetToBag({[job |-> job, pc |-> "race"]})
         /\ starts' = [starts EXCEPT ![job] = @ + 1]
         /\ waiting' = [waiting EXCEPT ![job] = FALSE]
         /\ cronEvent' = Event("start", job, IF waiting[job] THEN 1 ELSE 0,
                               unscheduled[job])

\* the timer of the entry of a job fires (lines 63-65)
TimerFires(job) ==
    /\ scheduledTasks[job].armed
    /\ executeJob(job,
                  [scheduledTasks EXCEPT ![job] = [@ EXCEPT !.armed = FALSE]],
                  orphanTimers)
    /\ UNCHANGED <<jobs, stored, abandoned, rpcs, rpcStarted, unscheduled, paused>>
    /\ CronOnly

\* an armed timer of a job that no entry refers to fires (lines 63-65)
OrphanTimerFires(job) ==
    /\ orphanTimers[job] > 0
    /\ executeJob(job, scheduledTasks,
                  [orphanTimers EXCEPT ![job] = @ - 1])
    /\ UNCHANGED <<jobs, stored, abandoned, rpcs, rpcStarted, unscheduled, paused>>
    /\ CronOnly

\* the executor's promise resolves first (lines 103-107): the success is
\* recorded in the job, and updateJob awaited
ExecutorResolves(e) ==
    /\ e.pc = "race"
    /\ jobs' = [jobs EXCEPT ![e.job] =
                  [@ EXCEPT !.executionCount = @ + 1, !.lastError = "none",
                            !.sinceSuccess = 0]]
    /\ executions' = (executions (-) SetToBag({e})) (+)
                     SetToBag({[e EXCEPT !.pc = "updateJob"]})
    /\ cronEvent' = Event("resolved", e.job, jobs[e.job].executionCount,
                          FALSE)
    /\ UNCHANGED <<stored, scheduledTasks, orphanTimers, activeExecutions,
                   abandoned, rpcs, starts, rpcStarted, waiting, unscheduled, paused>>
    /\ CronOnly

\* the catch of executeJob (lines 121-126) up to its await of updateJob
Catch(e, errorMsg) ==
    /\ jobs' = [jobs EXCEPT ![e.job] =
                  [@ EXCEPT !.failureCount = @ + 1, !.lastError = errorMsg,
                            !.sinceSuccess = @ + 1]]
    /\ executions' = (executions (-) SetToBag({e})) (+)
                     SetToBag({[e EXCEPT !.pc = "catch"]})
    /\ cronEvent' = Event("failed", e.job, jobs[e.job].failureCount, FALSE)

\* the executor's promise rejects first
ExecutorRejects(e) ==
    /\ e.pc = "race"
    /\ Catch(e, "Error")
    /\ UNCHANGED <<stored, scheduledTasks, orphanTimers, activeExecutions,
                   abandoned, rpcs, starts, rpcStarted, waiting, unscheduled, paused>>
    /\ CronOnly

\* the execution timeout fires first (lines 96-101): the race rejects, the
\* invocation of the executor goes on
ExecutionTimeout(e) ==
    /\ e.pc = "race"
    /\ Catch(e, "Job execution timeout")
    /\ abandoned' = abandoned + 1
    /\ UNCHANGED <<stored, scheduledTasks, orphanTimers, activeExecutions,
                   rpcs, starts, rpcStarted, waiting, unscheduled, paused>>
    /\ CronOnly

\* an invocation of the executor that lost the race settles
AbandonedExecutorSettles ==
    /\ abandoned > 0
    /\ abandoned' = abandoned - 1
    /\ cronEvent' = NoEvent
    /\ UNCHANGED <<jobs, stored, scheduledTasks, orphanTimers,
                   activeExecutions, executions, rpcs, starts, rpcStarted,
                   waiting, unscheduled, paused>>
    /\ CronOnly

\* an end of an execution that leaves activeExecutions as it is
FinallyKeepsCount(e) ==
    /\ UNCHANGED activeExecutions
    /\ executions' = executions (-) SetToBag({e})

\* the end of an execution: finally (lines 147-149)
Finally(e) ==
    /\ activeExecutions' = activeExecutions - 1
    /\ executions' = executions (-) SetToBag({e})

\* updateJob of the success path returns (lines 109-120): the job is
\* scheduled for the time after the next of its cron expression
UpdateJobReturns(e) ==
    /\ e.pc = "updateJob"
    /\ stored' = [stored EXCEPT ![e.job] = jobs[e.job]]
    /\ scheduleNext(e.job, At("cronAfter", 0))
    /\ Finally(e)
    /\ cronEvent' = Event("succeeded", e.job, 0, unscheduled[e.job])
    /\ UNCHANGED <<jobs, abandoned, rpcs, starts, rpcStarted, waiting,
                   unscheduled, paused>>
    /\ CronOnly

\* updateJob of the success path throws: the catch is entered
UpdateJobThrows(e) ==
    /\ e.pc = "updateJob"
    /\ Catch(e, "Error")
    /\ UNCHANGED <<stored, scheduledTasks, orphanTimers, activeExecutions,
                   abandoned, rpcs, starts, rpcStarted, waiting, unscheduled, paused>>
    /\ CronOnly

\* updateJob of the catch returns (lines 128-146): the retry, or the next
\* time of the cron expression
CatchUpdateJobReturns(e) ==
    /\ e.pc = "catch"
    /\ stored' = [stored EXCEPT ![e.job] = jobs[e.job]]
    /\ IF jobs[e.job].failureCount <= maxRetries
       THEN scheduleNext(e.job, At("backoff", jobs[e.job].failureCount))
       ELSE scheduleNext(e.job, At("cron", 0))
    /\ Finally(e)
    /\ cronEvent' = Event("failureHandled", e.job, 0, unscheduled[e.job])
    /\ UNCHANGED <<jobs, abandoned, rpcs, starts, rpcStarted, waiting,
                   unscheduled, paused>>
    /\ CronOnly

\* updateJob of the catch throws: the error leaves executeJob through
\* finally
CatchUpdateJobThrows(e) ==
    /\ e.pc = "catch"
    /\ Finally(e)
    /\ cronEvent' = Event("failureHandled", e.job, 0, unscheduled[e.job])
    /\ UNCHANGED <<jobs, stored, scheduledTasks, orphanTimers, abandoned,
                   rpcs, starts, rpcStarted, waiting, unscheduled, paused>>
    /\ CronOnly

\* a gateway method is called and runs to its first await
RpcEnter(op, job) ==
    /\ rpcStarted < MaxRpcCalls
    /\ rpcStarted' = rpcStarted + 1
    /\ rpcs' = rpcs (+) SetToBag({[op |-> op, job |-> job]})

RpcLeave(r) == rpcs' = rpcs (-) SetToBag({r})

\* carapace.cron.create (index.ts lines 125-171) up to the await of
\* saveJob, with a fresh job id
CronCreate(job) ==
    /\ ~jobs[job].created
    /\ \A r \in BagToSet(rpcs) : ~(r.op = "create" /\ r.job = job)
    /\ \A j \in JobIds : j < job =>
          jobs[j].created \/ \E r \in BagToSet(rpcs) : r.job = j
    /\ RpcEnter("create", job)
    /\ cronEvent' = NoEvent
    /\ UNCHANGED <<jobs, stored, scheduledTasks, orphanTimers,
                   activeExecutions, executions, abandoned, starts, waiting,
                   unscheduled, paused>>
    /\ CronOnly

\* scheduleJob (lines 33-56) of a job with a valid cron expression
scheduleJob(job, enabled) ==
    IF ~enabled
    THEN UNCHANGED <<scheduledTasks, orphanTimers, unscheduled>>
    ELSE /\ scheduledTasks' =
               [scheduledTasks EXCEPT ![job] = Task(TRUE, At("cron", 0))]
         /\ UNCHANGED orphanTimers
         /\ unscheduled' = [unscheduled EXCEPT ![job] = FALSE]

\* saveJob of carapace.cron.create returns: the job is scheduled
CronCreateSaved(r) ==
    /\ r.op = "create"
    /\ jobs' = [jobs EXCEPT ![r.job] = NewJob]
    /\ stored' = [stored EXCEPT ![r.job] = NewJob]
    /\ scheduleJob(r.job, TRUE)
    /\ RpcLeave(r)
    /\ cronEvent' = Event("scheduled", r.job, 0, FALSE)
    /\ UNCHANGED <<activeExecutions, executions, abandoned, starts,
                   rpcStarted, waiting, paused>>
    /\ CronOnly

\* carapace.cron.delete (index.ts lines 173-189) up to the await of
\* deleteJob: the job is unscheduled
CronDelete(job) ==
    /\ jobs[job].created
    /\ RpcEnter("delete", job)
    /\ scheduledTasks' = unscheduleJob(scheduledTasks, job)
    /\ unscheduled' = [unscheduled EXCEPT ![job] = TRUE]
    /\ waiting' = [waiting EXCEPT ![job] = FALSE]
    /\ cronEvent' = Event("unscheduled", job, 0, FALSE)
    /\ UNCHANGED <<jobs, stored, orphanTimers, activeExecutions, executions,
                   abandoned, starts, paused>>
    /\ CronOnly

\* deleteJob of carapace.cron.delete returns
CronDeleteDone(r) ==
    /\ r.op = "delete"
    /\ stored' = [stored EXCEPT ![r.job] = NoJob]
    /\ RpcLeave(r)
    /\ cronEvent' = NoEvent
    /\ UNCHANGED <<jobs, scheduledTasks, orphanTimers, activeExecutions,
                   executions, abandoned, starts, rpcStarted, waiting,
                   unscheduled, paused>>
    /\ CronOnly

\* carapace.cron.resume (index.ts lines 217-241) for a job the store has,
\* up to the await of updateJob
CronResume(job) ==
    /\ stored[job].created
    /\ RpcEnter("resume", job)
    /\ jobs' = [jobs EXCEPT ![job] = [@ EXCEPT !.enabled = TRUE]]
    /\ paused' = [paused EXCEPT ![job] = FALSE]
    /\ cronEvent' = NoEvent
    /\ UNCHANGED <<stored, scheduledTasks, orphanTimers, activeExecutions,
                   executions, abandoned, starts, waiting, unscheduled>>
    /\ CronOnly

\* updateJob of carapace.cron.resume returns: the job is scheduled
CronResumeUpdated(r) ==
    /\ r.op = "resume"
    /\ stored' = [stored EXCEPT ![r.job] = jobs[r.job]]
    /\ scheduleJob(r.job, jobs[r.job].enabled)
    /\ RpcLeave(r)
    /\ cronEvent' = Event("scheduled", r.job, 0, FALSE)
    /\ UNCHANGED <<jobs, activeExecutions, executions, abandoned, starts,
                   rpcStarted, waiting, paused>>
    /\ CronOnly

\* carapace.cron.pause (index.ts lines 191-215) for a job the store has, up
\* to the await of updateJob: the job object is disabled
CronPause(job) ==
    /\ stored[job].created
    /\ RpcEnter("pause", job)
    /\ jobs' = [jobs EXCEPT ![job] = [@ EXCEPT !.enabled = FALSE]]
    /\ cronEvent' = NoEvent
    /\ UNCHANGED <<stored, scheduledTasks, orphanTimers, activeExecutions,
                   executions, abandoned, starts, waiting, unscheduled, paused>>
    /\ CronOnly

\* updateJob of carapace.cron.pause returns: the job is unscheduled and the
\* method returns
CronPauseUpdated(r) ==
    /\ r.op = "pause"
    /\ stored' = [stored EXCEPT ![r.job] = jobs[r.job]]
    /\ scheduledTasks' = unscheduleJob(scheduledTasks, r.job)
    /\ unscheduled' = [unscheduled EXCEPT ![r.job] = TRUE]
    /\ waiting' = [waiting EXCEPT ![r.job] = FALSE]
    /\ paused' = [paused EXCEPT ![r.job] = TRUE]
    /\ RpcLeave(r)
    /\ cronEvent' = Event("paused", r.job, 0, FALSE)
    /\ UNCHANGED <<jobs, orphanTimers, activeExecutions, executions,
                   abandoned, starts, rpcStarted>>
    /\ CronOnly

CronNext ==
    \/ \E job \in JobIds : TimerFires(job)
    \/ \E job \in JobIds : OrphanTimerFires(job)
    \/ \E e \in BagToSet(executions) : ExecutorResolves(e)
    \/ \E e \in BagToSet(executions) : ExecutorRejects(e)
    \/ \E e \in BagToSet(executions) : ExecutionTimeout(e)
    \/ AbandonedExecutorSettles
    \/ \E e \in BagToSet(executions) : UpdateJobReturns(e)
    \/ \E e \in BagToSet(executions) : UpdateJobThrows(e)
    \/ \E e \in BagToSet(executions) : CatchUpdateJobReturns(e)
    \/ \E e \in BagToSet(executions) : CatchUpdateJobThrows(e)
    \/ \E job \in JobIds : CronCreate(job)
    \/ \E r \in BagToSet(rpcs) : CronCreateSaved(r)
    \/ \E job \in JobIds : CronDelete(job)
    \/ \E r \in BagToSet(rpcs) : CronDeleteDone(r)
    \/ \E job \in JobIds : CronResume(job)
    \/ \E r \in BagToSet(rpcs) : CronResumeUpdated(r)
    \/ \E job \in JobIds : CronPause(job)
    \/ \E r \in BagToSet(rpcs) : CronPauseUpdated(r)

(***************************************************************************)
(* Claims about the cron scheduler.                                        *)
(***************************************************************************)
\* the invocations of the executor that have started and not finished
RunningInvocations ==
    BagCardinality([e \in {x \in BagToSet(executions) : x.pc = "race"} |->
                       CopiesIn(e, executions)])
    + abandoned

C18_UnscheduledStaysUnscheduled ==
    \A job \in JobIds :
        unscheduled[job] =>
            /\ scheduledTasks[job] = NoTask
            /\ orphanTimers[job] = 0
            /\ ~(cronEvent.kind = "start" /\ cronEvent.job = job)

\* C19: an execution that failed or timed out has incremented failureCount
\* and recorded lastError; when its handling ends the job is persisted and
\* armed, for now + backoffMs * failureCount if failureCount <= maxRetries
\* and else for the next time of its cron expression
C19_FailureRetriesOrReschedules ==
    /\ cronEvent.kind = "failed" =>
          /\ jobs[cronEvent.job].failureCount = cronEvent.n + 1
          /\ jobs[cronEvent.job].lastError # "none"
    /\ cronEvent.kind = "failureHandled" =>
          LET job == cronEvent.job
          IN  /\ stored[job] = jobs[job]
              /\ scheduledTasks[job] =
                    IF jobs[job].failureCount <= maxRetries
                    THEN Task(TRUE, At("backoff", jobs[job].failureCount))
                    ELSE Task(TRUE, At("cron", 0))

\* C29: a disabled job never runs: once carapace.cron.pause has returned
\* for a job, and until carapace.cron.resume is called for it, the job is
\* disabled, no timer of the job is armed and no execution of it starts,
\* whatever the timers and the executions in progress do
C29_PausedNeverRuns ==
    \A job \in JobIds :
        paused[job] =>
            /\ ~jobs[job].enabled
            /\ ~scheduledTasks[job].armed
            /\ orphanTimers[job] = 0
            /\ ~(cronEvent.kind = "start" /\ cronEvent.job = job)

\* C30: activeExecutions is the number of executeJob calls in progress: a
\* start adds one, every end of an execution (after a success, a failure, a
\* timeout, an error of the job store) takes one away, a requeue at
\* capacity leaves it; it stays between 0 and maxConcurrentExecutions and
\* is 0 when no execution is in progress
C30_ActiveExecutionsBalanced ==
    /\ [](/\ activeExecutions = BagCardinality(executions)
          /\ activeExecutions >= 0
          /\ activeExecutions <= maxConcurrentExecutions)
    /\ [][activeExecutions' =
             CASE cronEvent'.kind = "start" -> activeExecutions + 1
               [] cronEvent'.kind \in {"succeeded", "failureHandled"} ->
                     activeExecutions - 1
               [] OTHER -> activeExecutions]_vars

\* C30 witness: the execution that ran at capacity has ended after an error
\* of the job store in its catch, and no execution is in progress
C30_Witness ==
    /\ cronEvent.kind = "failureHandled"
    /\ stored[cronEvent.job] # jobs[cronEvent.job]
    /\ activeExecutions = 0
    /\ executions = EmptyBag
    /\ \E job \in JobIds : waiting[job]

\* the execution attempts of a job that have finished: the executions that
\* started and whose race of the executor with the timeout has settled
FinishedAttempts(job) ==
    starts[job]
    - BagCardinality([e \in {x \in BagToSet(executions) :
                                x.job = job /\ x.pc = "race"} |->
                         CopiesIn(e, executions)])

\* C31: every finished execution attempt of a job is counted once:
\* executionCount + failureCount is the number of its finished attempts,
\* also when updateJob fails
C31_AttemptsCountedOnce ==
    \A job \in JobIds :
        jobs[job].executionCount + jobs[job].failureCount
            = FinishedAttempts(job)

\* the job a persisted history leaves: failures failed attempts, and after
\* them a success if succeeded
JobWithHistory(failures, succeeded) ==
    [NewJob EXCEPT !.failureCount = failures,
                   !.executionCount = IF succeeded THEN 1 ELSE 0,
                   !.lastError = IF succeeded \/ failures = 0 THEN "none"
                                 ELSE "Error",
                   !.sinceSuccess = IF succeeded THEN 0 ELSE failures]

\* the scheduler with job 1 scheduled after earlier executions
CronRetryInit ==
    /\ \E failures \in 0 .. maxRetries + 1, succeeded \in BOOLEAN :
          /\ jobs = [j \in JobIds |->
                        IF j = 1 THEN JobWithHistory(failures, succeeded)
                        ELSE NoJob]
          /\ stored = jobs
    /\ scheduledTasks = [j \in JobIds |->
                            IF j = 1 THEN Task(TRUE, At("cron", 0))
                            ELSE NoTask]
    /\ orphanTimers = [j \in JobIds |-> 0]
    /\ activeExecutions = 0
    /\ executions = EmptyBag
    /\ abandoned = 0
    /\ rpcs = EmptyBag
    /\ starts = [j \in JobIds |-> 0]
    /\ rpcStarted = 0
    /\ waiting = [j \in JobIds |-> FALSE]
    /\ unscheduled = [j \in JobIds |-> FALSE]
    /\ paused = [j \in JobIds |-> FALSE]
    /\ cronEvent = NoEvent

\* the scheduler alone: timers fire and executions run, no gateway method
\* is called
CronRetryNext ==
    \/ \E job \in JobIds : TimerFires(job)
    \/ \E e \in BagToSet(executions) : ExecutorResolves(e)
    \/ \E e \in BagToSet(executions) : ExecutorRejects(e)
    \/ \E e \in BagToSet(executions) : ExecutionTimeout(e)
    \/ AbandonedExecutorSettles
    \/ \E e \in BagToSet(executions) : UpdateJobReturns(e)
    \/ \E e \in BagToSet(executions) : UpdateJobThrows(e)
    \/ \E e \in BagToSet(executions) : CatchUpdateJobReturns(e)
    \/ \E e \in BagToSet(executions) : CatchUpdateJobThrows(e)

\* C35: retries are granted per failure episode: when the handling of a
\* failure ends for a job that has succeeded before and has failed at most
\* maxRetries times since its last success, the job is armed for a retry
\* with backoff, however many failures it had before that success
C35_RetriesPerEpisode ==
    [][\A e \in BagToSet(executions) :
          (/\ CatchUpdateJobReturns(e)
           /\ jobs[e.job].executionCount > 0
           /\ jobs[e.job].sinceSuccess <= maxRetries)
              => scheduledTasks'[e.job].nextExecution.kind = "backoff"]_vars

\* the timers armed for a job: the one its entry of scheduledTasks refers
\* to and those no entry refers to
ArmedTimers(job) ==
    (IF scheduledTasks[job].armed THEN 1 ELSE 0) + orphanTimers[job]

\* C34: at most one timer is armed for a job at any time, and the entry of
\* the job in scheduledTasks refers to it
C34_OneTimerPerJob ==
    \A job \in JobIds :
        /\ ArmedTimers(job) <= 1
        /\ orphanTimers[job] = 0

(***************************************************************************)
(* The secrets scanner (secrets-scanner.ts). A text is a sequence of       *)
(* characters; the offsets of a match count from 0 as in the code, the     *)
(* positions of the matching operators from 1. The texts are built from a  *)
(* few fragments, and SECRET_PATTERNS holds the patterns that can match a  *)
(* text built from them or a redaction of one: no other pattern of the     *)
(* source finds its keyword or prefix in such a text. The lineNumber of a  *)
(* match is left out, no operation reads it.                               *)
(*   history  the text the scanner was given and what redactSecrets made   *)
(*            of it, call after call                                       *)
(*   scanned  the result of the scanForSecrets call of the last step       *)
(***************************************************************************)
\* number of fragments a text is built from
MaxFragments == 3
\* number of redactSecrets calls applied to a text, each to the result of
\* the one before
MaxRedactions == 2

UpperCase == <<"A", "B", "C", "D", "E", "F", "G", "H", "I", "J", "K", "L", "M", "N", "O", "P", "Q", "R", "S", "T", "U", "V", "W", "X", "Y", "Z">>
LowerCase == <<"a", "b", "c", "d", "e", "f", "g", "h", "i", "j", "k", "l", "m", "n", "o", "p", "q", "r", "s", "t", "u", "v", "w", "x", "y", "z">>

\* the lower case of a character: the i flag and the classes like [tT]
toLowerCase(c) ==
    IF c \in {UpperCase[i] : i \in 1 .. Len(UpperCase)}
    THEN LowerCase[CHOOSE i \in 1 .. Len(UpperCase) : UpperCase[i] = c]
    ELSE c

Whitespace == {" "}
Quotes == {"'", "\""}
Separators == {"=", ":"}
\* the characters of the texts that are no letter, no digit and none of
\* "_", "-", "."
Punctuation == Whitespace \cup Quotes \cup Separators \cup {"[", "]", "!"}

\* the character classes of the patterns, over the characters of the texts:
\*   space   \s
\*   word    [A-Za-z0-9_\-\.]
\*   bearer  [A-Za-z0-9\-_.~+/]
\*   field   [^\s'"=:]
\*   equals  =
InClass(class, c) ==
    CASE class = "space" -> c \in Whitespace
      [] class = "word" -> c \notin Punctuation
      [] class = "bearer" -> c \notin Punctuation
      [] class = "field" -> c \notin (Whitespace \cup Quotes \cup Separators)
      [] class = "equals" -> c = "="

\* a greedy class*: the position behind the longest run of characters of the
\* class from position i
RunEnd(text, i, class) ==
    Min({j \in i .. Len(text) + 1 :
            j > Len(text) \/ ~InClass(class, text[j])})

\* the characters of word stand at position i of text
HasWord(text, i, word, ignoreCase) ==
    /\ i + Len(word) - 1 <= Len(text)
    /\ \A k \in 1 .. Len(word) :
          (IF ignoreCase THEN toLowerCase(text[i + k - 1])
           ELSE text[i + k - 1]) = word[k]

\* ['"]? at position i: the position behind it
OptionalQuote(text, i) ==
    IF i <= Len(text) /\ text[i] \in Quotes THEN i + 1 ELSE i

\* \s*[=:]\s*['"]?C{min,}['"]? for a class C without quotes, at position i:
\* the position behind the match, 0 without a match
Assignment(text, i, class, min) ==
    LET a == RunEnd(text, i, "space")
    IN  IF a > Len(text) \/ text[a] \notin Separators THEN 0
        ELSE LET c == OptionalQuote(text, RunEnd(text, a + 1, "space"))
                 d == RunEnd(text, c, class)
             IN  IF d - c < min THEN 0 ELSE OptionalQuote(text, d)

TokenWord == <<"t", "o", "k", "e", "n">>
EarerWord == <<"e", "a", "r", "e", "r">>
\* the alternatives of line 82; no two of them begin with the same letter
Keywords == <<<<"s", "e", "c", "r", "e", "t">>,
              <<"t", "o", "k", "e", "n">>,
              <<"k", "e", "y">>,
              <<"p", "a", "s", "s", "w", "o", "r", "d">>,
              <<"c", "r", "e", "d", "e", "n", "t", "i", "a", "l">>,
              <<"a", "u", "t", "h">>>>

\* line 66: /[tT][oO][kK][eE][nN]\s*[=:]\s*['"]?[^\s'"=:]+['"]?/
TokenField(text, i) ==
    IF HasWord(text, i, TokenWord, TRUE)
    THEN Assignment(text, i + Len(TokenWord), "field", 1)
    ELSE 0

\* line 72: /[Bb]earer\s+[A-Za-z0-9\-_.~+/]+=*/
BearerToken(text, i) ==
    IF text[i] \in {"B", "b"} /\ HasWord(text, i + 1, EarerWord, FALSE)
    THEN LET a == RunEnd(text, i + 1 + Len(EarerWord), "space")
             b == RunEnd(text, a, "bearer")
         IN  IF a = i + 1 + Len(EarerWord) \/ b = a THEN 0
             ELSE RunEnd(text, b, "equals")
    ELSE 0

\* line 82: /(?:SECRET|TOKEN|KEY|PASSWORD|CREDENTIAL|AUTH)\s*[=:]\s*['"]?
\* [A-Za-z0-9_\-\.]{16,}['"]?/i
GenericSecretEnvironment(text, i) ==
    LET ks == {k \in 1 .. Len(Keywords) : HasWord(text, i, Keywords[k], TRUE)}
    IN  IF ks = {} THEN 0
        ELSE Assignment(text, i + Len(Keywords[CHOOSE k \in ks : TRUE]),
                        "word", 16)

\* SECRET_PATTERNS (lines 11-83): the names of the patterns in their order
SECRET_PATTERNS ==
    <<<<"T", "o", "k", "e", "n", " ", "F", "i", "e", "l", "d">>,
      <<"B", "e", "a", "r", "e", "r", " ", "T", "o", "k", "e", "n">>,
      <<"G", "e", "n", "e", "r", "i", "c", " ", "S", "e", "c", "r", "e", "t", " ", "E", "n", "v", "i", "r", "o", "n", "m", "e", "n", "t">>>>

\* pattern p tried at position i of text: the position behind the match, 0
\* without a match
MatchEnd(p, text, i) ==
    CASE p = 1 -> TokenField(text, i)
      [] p = 2 -> BearerToken(text, i)
      [] p = 3 -> GenericSecretEnvironment(text, i)

\* the match of pattern p found at position i, with its index and length
MatchAt(p, text, i) == [index |-> i - 1, length |-> MatchEnd(p, text, i) - i]

\* the loop of regex.exec with the g flag (lines 106-107) from position
\* lastIndex: the matches, left to right; the search goes on behind a match
RECURSIVE execAll(_, _, _)
execFirst(p, text, i) ==
    <<MatchAt(p, text, i)>> \o execAll(p, text, MatchEnd(p, text, i))

execAll(p, text, lastIndex) ==
    LET found == {i \in lastIndex .. Len(text) : MatchEnd(p, text, i) > 0}
    IN  IF found = {} THEN <<>> ELSE execFirst(p, text, Min(found))

RedactedWord == <<"[", "R", "E", "D", "A", "C", "T", "E", "D", "]">>
RedactedOpen == <<".", ".", ".", "[", "R", "E", "D", "A", "C", "T", "E", "D", ":">>
RedactedClose == <<"]", ".", ".", ".">>

\* createRedactionString (lines 89-97)
createRedactionString(match, type) ==
    IF Len(match) <= 8 THEN RedactedWord
    ELSE SubSeq(match, 1, 4) \o RedactedOpen \o type \o RedactedClose
             \o SubSeq(match, Len(match) - 3, Len(match))

\* the SecretMatch pushed for a match of pattern p (lines 112-119)
SecretMatch(p, text, found) ==
    LET match == SubSeq(text, found.index + 1, found.index + found.length)
    IN  [type |-> SECRET_PATTERNS[p],
         match |-> match,
         redacted |-> createRedactionString(match, SECRET_PATTERNS[p]),
         position |-> [start |-> found.index,
                       end |-> found.index + found.length]]

\* the SecretMatch records of the matches found of pattern p
SecretMatches(p, text, found) ==
    [k \in 1 .. Len(found) |-> SecretMatch(p, text, found[k])]

\* the matches of pattern p that are pushed (lines 108-119): those whose
\* position and length no match pushed before has
pushed(p, text, matches) ==
    matches \o SecretMatches(p, text,
        SelectSeq(execAll(p, text, 1),
                  LAMBDA f : \A k \in 1 .. Len(matches) :
                      ~(/\ matches[k].position.start = f.index
                        /\ matches[k].position.end = f.index + f.length)))

\* the loop over SECRET_PATTERNS (lines 103-125) from pattern p on
RECURSIVE scanPatterns(_, _, _)
scanPatterns(p, text, matches) ==
    IF p > Len(SECRET_PATTERNS) THEN matches
    ELSE scanPatterns(p + 1, text, pushed(p, text, matches))

\* Array.prototype.sort by position.start, ascending (line 128) or
\* descending (line 137); the sort is stable
RECURSIVE sortByStart(_, _)
sortByStart(matches, descending) ==
    IF matches = <<>> THEN <<>>
    ELSE LET m == Head(matches)
             rest == sortByStart(Tail(matches), descending)
             before == {k \in 1 .. Len(rest) :
                           IF descending
                           THEN rest[k].position.start > m.position.start
                           ELSE rest[k].position.start < m.position.start}
         IN  SubSeq(rest, 1, Cardinality(before)) \o <<m>>
                 \o SubSeq(rest, Cardinality(before) + 1, Len(rest))

\* scanForSecrets (lines 99-130)
scanForSecrets(text) == sortByStart(scanPatterns(1, text, <<>>), FALSE)

\* String.prototype.substring(a, b): the offsets are clamped to the length
\* and swapped if a is behind b
substring(s, a, b) ==
    LET ca == IF a > Len(s) THEN Len(s) ELSE a
        cb == IF b > Len(s) THEN Len(s) ELSE b
    IN  IF ca <= cb THEN SubSeq(s, ca + 1, cb) ELSE SubSeq(s, cb + 1, ca)

\* the replacement loop of redactSecrets (lines 139-144): every match is
\* replaced at the offsets it had in the text that was scanned
RECURSIVE replaceMatches(_, _)
replaceMatches(result, matches) ==
    IF matches = <<>> THEN result
    ELSE LET m == Head(matches)
         IN  replaceMatches(substring(result, 0, m.position.start)
                                \o m.redacted
                                \o substring(result, m.position.end,
                                             Len(result)),
                            Tail(matches))

\* redactSecrets (lines 132-147)
redactSecrets(text) ==
    replaceMatches(text, sortByStart(scanForSecrets(text), TRUE))

\* the fragments of the texts: a token assignment, a bearer prefix, sixteen
\* word characters, two characters of which the first is no word character,
\* and a space
Fragments ==
    { <<"t", "o", "k", "e", "n", "=">>,
      <<"B", "e", "a", "r", "e", "r", " ">>,
      <<"a", "b", "c", "d", "e", "f", "g", "h", "i", "j", "k", "l", "m", "n", "o", "p">>,
      <<"!", "x">>,
      <<" ">> }

\* the texts of at most n fragments
RECURSIVE Concatenations(_)
Concatenations(n) ==
    IF n = 0 THEN {<<>>}
    ELSE LET shorter == Concatenations(n - 1)
         IN  shorter \cup {t \o f : t \in shorter, f \in Fragments}

NotScanned == [called |-> FALSE, matches |-> <<>>]

ScannerInit ==
    /\ history \in {<<t>> : t \in Concatenations(MaxFragments)}
    /\ scanned = NotScanned

\* scanForSecrets is called with the text
ScanCall ==
    /\ scanned' = [called |-> TRUE,
                   matches |-> scanForSecrets(history[Len(history)])]
    /\ UNCHANGED history
    /\ ScannerOnly

\* redactSecrets is called with the text, and its result is the text from
\* then on
RedactCall ==
    /\ Len(history) <= MaxRedactions
    /\ history' = Append(history, redactSecrets(history[Len(history)]))
    /\ scanned' = NotScanned
    /\ ScannerOnly

ScannerNext ==
    \/ ScanCall
    \/ RedactCall

(***************************************************************************)
(* The secrets detection configuration (secrets-scanner.ts lines 149-169)  *)
(* and the gateway method carapace.security.secrets.configure (index.ts).  *)
(*   secretsDetectionConfig  the module variable of that name              *)
(*   configureCall           the call of the gateway method made in the    *)
(*                           last step, with the fields it configured      *)
(***************************************************************************)
Modes == {"warn", "redact", "block"}
ConfigFields == {"mode", "enableLineNumbers", "maxSecretsPerType"}

\* lines 155-159
DEFAULT_CONFIG ==
    [mode |-> "redact", enableLineNumbers |-> TRUE, maxSecretsPerType |-> 10]

\* the params of a configure request: the fields that are given and their
\* values; a field that is not given holds "", FALSE or 0
ConfigureParams ==
    {p \in [given : SUBSET ConfigFields,
            mode : Modes \cup {"loud", ""},
            enableLineNumbers : BOOLEAN,
            maxSecretsPerType : {0, 5, 20}] :
        /\ "mode" \in p.given <=> p.mode # ""
        /\ "enableLineNumbers" \notin p.given => p.enableLineNumbers = FALSE
        /\ "maxSecretsPerType" \notin p.given => p.maxSecretsPerType = 0}

NoConfigureCall ==
    [called |-> FALSE, accepted |-> FALSE, fields |-> {},
     params |-> [given |-> {}, mode |-> "", enableLineNumbers |-> FALSE,
                 maxSecretsPerType |-> 0]]

SecretsConfigInit ==
    /\ secretsDetectionConfig = DEFAULT_CONFIG
    /\ configureCall = NoConfigureCall

\* the fields of the config object the gateway method builds from its
\* params (index.ts lines 424-433)
ValidFields(params) ==
    {f \in params.given :
        CASE f = "mode" -> params.mode \in Modes
          [] f = "enableLineNumbers" -> TRUE
          [] f = "maxSecretsPerType" -> params.maxSecretsPerType > 0}

\* configureSecretsDetection (lines 163-165) with a config of the given
\* fields: { ...DEFAULT_CONFIG, ...config }
configureSecretsDetection(fields, values) ==
    [f \in ConfigFields |->
        IF f \in fields THEN values[f] ELSE DEFAULT_CONFIG[f]]

\* the gateway method carapace.security.secrets.configure (index.ts lines
\* 417-453): without a valid field the request is refused
SecretsConfigure(params) ==
    LET fields == ValidFields(params)
    IN  /\ secretsDetectionConfig' =
              IF fields = {} THEN secretsDetectionConfig
              ELSE configureSecretsDetection(fields, params)
        /\ configureCall' = [called |-> TRUE, accepted |-> fields # {},
                             fields |-> fields, params |-> params]
        /\ SecretsConfigOnly

SecretsConfigNext ==
    \E params \in ConfigureParams : SecretsConfigure(params)

(***************************************************************************)
(* Claims about the secrets scanner and its configuration.                 *)
(***************************************************************************)
\* C26: the matches scan returns are sorted ascending by start offset and
\* pairwise non-overlapping; no two of them start at the same offset
C26_SortedNonOverlapping ==
    scanned.called =>
        \A i \in 1 .. Len(scanned.matches) - 1 :
            /\ scanned.matches[i].position.start
                  < scanned.matches[i + 1].position.start
            /\ scanned.matches[i].position.end
                  <= scanned.matches[i + 1].position.start

\* C27: redact is idempotent, redact(redact(T)) = redact(T); what redact
\* inserts is not detected as a secret, and a text without secrets is
\* returned unchanged
C27_RedactIdempotent ==
    /\ Len(history) >= 3 => history[3] = history[2]
    /\ Len(history) >= 2 =>
          /\ \A k \in 1 .. Len(scanForSecrets(history[1])) :
                scanForSecrets(scanForSecrets(history[1])[k].redacted) = <<>>
          /\ scanForSecrets(history[1]) = <<>> => history[2] = history[1]

\* C28: a configure request with some of the fields sets exactly these and
\* leaves the other settings as they were configured before
C28_ConfigurePreservesOthers ==
    [][(configureCall'.called /\ configureCall'.accepted) =>
          \A f \in ConfigFields :
              secretsDetectionConfig'[f] =
                  IF f \in configureCall'.fields
                  THEN configureCall'.params[f]
                  ELSE secretsDetectionConfig[f]]_vars

(***************************************************************************)
(* The audit store (audit-store.ts) under its operations, and the          *)
(* after_tool_call hook (audit-log-hook.ts, part_002 lines 316-419) that   *)
(* records the output of a shell call in the entry of the call. The hook   *)
(* has no await: it runs in one step.                                      *)
(*   entries, stats, uuids  the audit store, as above                      *)
(*   auditOps    the number of createEntry and updateEntry calls so far    *)
(*   afterCalls  the number of after_tool_call events so far               *)
(*   auditEvent  the operation of the last step: what it was called with   *)
(*               and how it ended                                          *)
(***************************************************************************)
\* number of createEntry and updateEntry calls followed in one behaviour
MaxAuditOps == 3
\* number of after_tool_call events followed in one behaviour
MaxAfterCalls == 1

\* the length the hook cuts the stored output to (part_002 lines 392, 405)
OutputLimit == 4096

OutputBlocked == <<"[", "O", "U", "T", "P", "U", "T", " ", "B", "L", "O", "C", "K", "E", "D", " ", "-", " ", "S", "e", "c", "r", "e", "t", "s", " ", "d", "e", "t", "e", "c", "t", "e", "d", "]">>

\* a store one entry short of MAX_ENTRIES, as MAX_ENTRIES - 1 shell calls
\* of the same allowed command leave it
AlmostFull ==
    [i \in 1 .. MAX_ENTRIES - 1 |->
        NewEntry(MAX_ENTRIES - i, <<W("ls")>>, "green", "allow",
                 Reason("safe", 0, <<>>))]

\* the output of a shell call: none, a short one, a secret of more than
\* eight characters alone, a secret of eight characters, an output longer
\* than OutputLimit without a secret and one that is a secret
Filler == [i \in 1 .. OutputLimit + 1 |-> "x"]
Outputs ==
    { <<>>,
      <<"o", "k">>,
      <<"t", "o", "k", "e", "n", "=", "a", "b", "c", "d", "e", "f", "g", "h", "i", "j", "k", "l", "m", "n", "o", "p">>,
      <<"t", "o", "k", "e", "n", "=", "!", "x">>,
      Filler,
      <<"t", "o", "k", "e", "n", "=">> \o Filler }

AuditEvent(op, toolName, entryId, output, mode, outcome) ==
    [op |-> op, toolName |-> toolName, entryId |-> entryId,
     output |-> output, mode |-> mode, outcome |-> outcome]

NoAuditEvent == AuditEvent("none", "", 0, <<>>, "", "none")

AuditInit ==
    /\ auditOps = 0
    /\ afterCalls = 0
    /\ auditEvent = NoAuditEvent

\* Object.assign(entry, updates) (line 60)
assign(entry, updates) ==
    [f \in DOMAIN entry \cup DOMAIN updates |->
        IF f \in DOMAIN updates THEN updates[f] ELSE entry[f]]

\* the entries with the updates assigned to entry k
assigned(es, k, updates) ==
    SubSeq(es, 1, k - 1) \o <<assign(es[k], updates)>>
        \o SubSeq(es, k + 1, Len(es))

\* updateEntry that puts the updates on the newest entry when it finds no
\* entry of the id
updateEntryOrNewest(es, entryId, updates) ==
    LET found == {i \in 1 .. Len(es) : es[i].id = entryId}
    IN  IF es = <<>> THEN [threw |-> TRUE, entries |-> es]
        ELSE [threw |-> FALSE,
              entries |-> assigned(es,
                                   IF found = {} THEN 1
                                   ELSE CHOOSE k \in found :
                                            \A i \in found : k <= i,
                                   updates)]

\* updateEntry (lines 54-62) on the entries es: whether it threw "Audit
\* entry not found", and the entries it leaves; find gives the first entry
\* of the id
updateEntry(es, entryId, updates) ==
    LET found == {i \in 1 .. Len(es) : es[i].id = entryId}
    IN  IF found = {} THEN [threw |-> TRUE, entries |-> es]
        ELSE [threw |-> FALSE,
              entries |-> assigned(es,
                                   CHOOSE k \in found :
                                       \A i \in found : k <= i,
                                   updates)]

\* the ScanResult of lines 187-192, with the redactedOutput of line 195
ScanResult(secrets, hasRedactedOutput, redactedOutput) ==
    [hasSecrets |-> Len(secrets) > 0,
     secretCount |-> Len(secrets),
     secrets |-> secrets,
     hasRedactedOutput |-> hasRedactedOutput,
     redactedOutput |-> redactedOutput]

\* scanOutput (lines 179-199) under the configured mode; the count of the
\* secrets by type is left out, the hook only logs it
scanOutput(output, mode) ==
    ScanResult(scanForSecrets(output), mode # "warn",
               IF mode # "warn" THEN redactSecrets(output) ELSE <<>>)

\* the updates the hook of the audit log puts on the entry (part_002 lines
\* 369-408)
HookUpdates(output, error, mode, scanResult) ==
    IF scanResult.hasSecrets
    THEN IF mode = "block"
         THEN [executedAt |-> TRUE, output |-> OutputBlocked,
               secretsFound |-> scanResult.secrets,
               secretsRedacted |-> "true"]
         ELSE [executedAt |-> TRUE,
               output |-> substring(
                   IF mode = "redact" /\ scanResult.redactedOutput # <<>>
                   THEN scanResult.redactedOutput ELSE output,
                   0, OutputLimit),
               error |-> error,
               secretsFound |-> scanResult.secrets,
               secretsRedacted |-> IF mode = "redact" THEN "true"
                                   ELSE "false"]
    ELSE [executedAt |-> TRUE,
          output |-> substring(output, 0, OutputLimit),
          error |-> error]

\* one more call of the store
AuditOp ==
    /\ auditOps < MaxAuditOps
    /\ auditOps' = auditOps + 1
    /\ UNCHANGED afterCalls

\* the before-hook records a command (security-hook.ts lines 45, 78, 136):
\* createEntry
CreateEntryCall(level, action) ==
    /\ AuditOp
    /\ createEntry(<<W("ls")>>, level, action,
                   Reason("safe", 0, <<>>))
    /\ auditEvent' = AuditEvent("createEntry", "", uuids + 1, <<>>, "",
                                "returned")
    /\ AuditOnly

\* updateEntry is called with the id of an entry and the output of its call
UpdateEntryCall(entryId, output) ==
    /\ AuditOp
    /\ LET updated == updateEntry(entries, entryId,
                                  [executedAt |-> TRUE, output |-> output])
       IN  /\ entries' = updated.entries
           /\ stats' = IF updated.threw THEN stats ELSE updateStats(entries')
           /\ auditEvent' = AuditEvent("updateEntry", "", entryId, output, "",
                                       IF updated.threw THEN "threw"
                                       ELSE "returned")
    /\ UNCHANGED uuids
    /\ AuditOnly

\* the end of the hook behind its call of updateEntry: the catch of lines
\* 409-413 on an error of the store, else the result
AfterUpdateEntry(auditEntryId, output, mode, blocks, updated) ==
    /\ entries' = updated.entries
    /\ stats' = IF updated.threw THEN stats ELSE updateStats(entries')
    /\ auditEvent' = AuditEvent("after_tool_call", "Bash", auditEntryId,
                                output, mode,
                                IF updated.threw THEN "caught"
                                ELSE IF blocks THEN "block" ELSE "returned")

\* the hook on the output of a shell call with an audit entry id (lines
\* 329-408)
AfterShellCall(auditEntryId, output, error, mode, scanResult) ==
    AfterUpdateEntry(auditEntryId, output, mode,
                     scanResult.hasSecrets /\ mode = "block",
                     updateEntry(entries, auditEntryId,
                                 HookUpdates(output, error, mode, scanResult)))

\* an after_tool_call event arrives (part_002 lines 322-417) with the result
\* of the tool, a string or nothing (the output <<>>, as line 336 makes it);
\* auditEntryId 0 stands for params without _auditEntryId
AfterToolCall(toolName, auditEntryId, output, error) ==
    /\ afterCalls < MaxAfterCalls
    /\ afterCalls' = afterCalls + 1
    /\ UNCHANGED auditOps
    /\ IF toolName # "Bash" \/ auditEntryId = 0
       THEN /\ auditEvent' = AuditEvent("after_tool_call", toolName,
                                        auditEntryId, output, "", "skipped")
            /\ UNCHANGED <<entries, stats>>
       ELSE AfterShellCall(auditEntryId, output, error,
                           secretsDetectionConfig.mode,
                           scanOutput(output, secretsDetectionConfig.mode))
    /\ UNCHANGED uuids
    /\ AuditOnly

\* the ids an operation is called with: the oldest entry ever created, the
\* newest one, and an id no entry was created with
EntryIds == {1, uuids, uuids + 1} \ {0}

\* the audit store under its operations and the hook, from an empty store
\* or a store one entry short of full
AuditStoreInit ==
    /\ entries \in {<<>>, AlmostFull}
    /\ stats = updateStats(entries)
    /\ uuids = Len(entries)

AuditStoreNext ==
    \/ \E level \in {"green"} : CreateEntryCall(level, "allow")
    \/ \E entryId \in EntryIds : UpdateEntryCall(entryId, <<"o", "k">>)
    \/ \E entryId \in EntryIds :
           AfterToolCall("Bash", entryId, <<"o", "k">>, "undefined")

\* the hook of the audit log with the outputs and the modes
AuditLogNext ==
    \/ \E level \in {"green"} : CreateEntryCall(level, "allow")
    \/ \E toolName \in {"Bash", "Read"}, entryId \in EntryIds \cup {0},
          output \in Outputs, error \in {"undefined", "Error"} :
           AfterToolCall(toolName, entryId, output, error)

(***************************************************************************)
(* Claims about the audit store and the hook of the audit log.             *)
(***************************************************************************)
\* C23: the store holds at most MAX_ENTRIES entries, newest first by
\* creation; a create on a full store evicts exactly the oldest entry, and
\* a create never fails
C23_BoundedNewestFirst ==
    /\ [](/\ Len(entries) <= MAX_ENTRIES
          /\ \A i \in 1 .. Len(entries) - 1 :
                entries[i].id > entries[i + 1].id)
    /\ [][auditEvent'.op = "createEntry" =>
             /\ auditEvent'.outcome = "returned"
             /\ entries'[1].id = uuids + 1
             /\ SubSeq(entries', 2, Len(entries')) =
                   IF Len(entries) = MAX_ENTRIES
                   THEN SubSeq(entries, 1, MAX_ENTRIES - 1)
                   ELSE entries]_vars

\* C23 witness: a create on a full store has evicted the oldest entry
C23_Witness ==
    /\ auditEvent.op = "createEntry"
    /\ uuids = MAX_ENTRIES + 1
    /\ Len(entries) = MAX_ENTRIES
    /\ entries[MAX_ENTRIES].id = 2

\* an operation was called with the id of an entry the store does not hold
MissingEntry(es, event) ==
    /\ event.op \in {"updateEntry", "after_tool_call"}
    /\ event.outcome # "skipped"
    /\ \A i \in 1 .. Len(es) : es[i].id # event.entryId

\* C24: an update on an id that is not in the store (never created, or
\* evicted) fails with the not-found error and leaves every entry as it
\* was; the after-hook that triggers it absorbs the error
C24_UpdateOfMissingEntry ==
    [][MissingEntry(entries, auditEvent') =>
          /\ entries' = entries
          /\ stats' = stats
          /\ auditEvent'.outcome =
                IF auditEvent'.op = "updateEntry" THEN "threw"
                ELSE "caught"]_vars

\* C24 witness: the after-hook of a call whose entry was evicted has caught
\* the error of the update
C24_Witness ==
    /\ auditEvent.op = "after_tool_call"
    /\ auditEvent.outcome = "caught"
    /\ auditEvent.entryId = 1
    /\ uuids > MAX_ENTRIES
    /\ entries # <<>>

\* the after-hook of the last step has put the output of a shell call with
\* secrets on the entry of the call
SecretsRecorded ==
    /\ auditEvent.op = "after_tool_call"
    /\ auditEvent.outcome \in {"returned", "block"}
    /\ scanForSecrets(auditEvent.output) # <<>>

\* C25: after the after-hook of a shell call whose output holds secrets, in
\* block mode the entry holds the placeholder as output with
\* secretsRedacted and the hook returns block; in redact mode it holds the
\* redacted output with secretsRedacted and the hook does not block; in
\* warn mode it holds the original output. The stored output is never
\* longer than OutputLimit, and in block or redact mode the entry holds the
\* raw output nowhere
C25_SecretsInAuditEntry ==
    /\ \A i \in 1 .. Len(entries) :
          "output" \in DOMAIN entries[i] =>
              Len(entries[i].output) <= OutputLimit
    /\ SecretsRecorded =>
          \A i \in 1 .. Len(entries) :
              entries[i].id = auditEvent.entryId =>
                  CASE auditEvent.mode = "block" ->
                          /\ entries[i].output = OutputBlocked
                          /\ entries[i].secretsRedacted = "true"
                          /\ auditEvent.outcome = "block"
                          /\ \A k \in 1 .. Len(entries[i].secretsFound) :
                                entries[i].secretsFound[k].match
                                    # auditEvent.output
                    [] auditEvent.mode = "redact" ->
                          /\ entries[i].output =
                                substring(redactSecrets(auditEvent.output),
                                          0, OutputLimit)
                          /\ entries[i].secretsRedacted = "true"
                          /\ auditEvent.outcome = "returned"
                          /\ entries[i].output # auditEvent.output
                          /\ \A k \in 1 .. Len(entries[i].secretsFound) :
                                entries[i].secretsFound[k].match
                                    # auditEvent.output
                    [] auditEvent.mode = "warn" ->
                          /\ entries[i].output =
                                substring(auditEvent.output, 0, OutputLimit)
                          /\ auditEvent.outcome = "returned"

(***************************************************************************)
(* S3JobStore (job-store.ts) for one job id. The cache holds the job       *)
(* object itself, the key-value store the text that serializeJob made of   *)
(* it when saveJob was called. The content of a job is its revision, a     *)
(* number that the callers of updateJob raise when they change the job     *)
(* before the call (index.ts lines 199-201, part_008 lines 103-107).       *)
(*   kv            the revision held under cron/jobs/{id}.json (0: no key) *)
(*   jobsCache     the job object cached for the id (0: none)              *)
(*   objects[o]    the revision job object o holds (0: no such object yet) *)
(*   storeCalls    the calls of the store in progress                      *)
(*   storeStarted  the number of calls of the store so far                 *)
(* A request to the key-value store takes effect there, and settles at the *)
(* caller later; requests in flight together take effect in any order.     *)
(***************************************************************************)
\* number of calls of the job store followed in one behaviour
MaxStoreCalls == 3
\* number of job objects: the one carapace.cron.create builds and those
\* getJob deserializes
MaxObjects == 2

Objects == 1 .. MaxObjects

JobStoreOnly ==
    UNCHANGED <<sandboxVars, approvalVars, classifierVars, hookVars,
                limiterVars, cronVars, scannerVars, secretsConfigVars,
                auditVars, pipelineVars, isolationVars>>

JobStoreInit ==
    /\ kv = 0
    /\ jobsCache = 0
    /\ objects = [o \in Objects |-> 0]
    /\ storeCalls = EmptyBag
    /\ storeStarted = 0

\* a call of the store: the operation, where it stands, the job object it
\* was given and the text it sends or has read
StoreCall(op, pc, obj, data) ==
    [op |-> op, pc |-> pc, obj |-> obj, data |-> data]

\* a call of the store begins and runs to its await of the key-value store
StoreEnter(call) ==
    /\ storeStarted < MaxStoreCalls
    /\ storeStarted' = storeStarted + 1
    /\ storeCalls' = storeCalls (+) SetToBag({call})

\* call c goes on as next
StoreStep(c, next) ==
    storeCalls' = (storeCalls (-) SetToBag({c})) (+) SetToBag({next})

StoreLeave(c) == storeCalls' = storeCalls (-) SetToBag({c})

\* the first job object that does not exist yet
FreshObject ==
    CHOOSE o \in Objects :
        objects[o] = 0 /\ \A p \in 1 .. o - 1 : objects[p] # 0

\* carapace.cron.create (index.ts lines 125-171) builds the job and calls
\* saveJob (lines 11-14): the job is serialized and storage.set awaited
SaveNewJob ==
    /\ kv = 0 /\ jobsCache = 0
    /\ \A o \in Objects : objects[o] = 0
    /\ objects' = [objects EXCEPT ![FreshObject] = 1]
    /\ StoreEnter(StoreCall("saveJob", "set", FreshObject, 1))
    /\ UNCHANGED <<kv, jobsCache>>
    /\ JobStoreOnly

\* a caller that got job object o from getJob (index.ts lines 195, 221,
\* 268) changes it and calls updateJob (lines 41-43), which is saveJob: the
\* job is serialized as it is now
UpdateJob(o) ==
    /\ jobsCache = o
    /\ objects' = [objects EXCEPT ![o] = @ + 1]
    /\ StoreEnter(StoreCall("saveJob", "set", o, objects[o] + 1))
    /\ UNCHANGED <<kv, jobsCache>>
    /\ JobStoreOnly

\* the key-value store writes the text of a saveJob
StorageSets(c) ==
    /\ c.op = "saveJob" /\ c.pc = "set"
    /\ kv' = c.data
    /\ StoreStep(c, [c EXCEPT !.pc = "written"])
    /\ UNCHANGED <<jobsCache, objects, storeStarted>>
    /\ JobStoreOnly

\* saveJob line 15: behind storage.set the job object is cached
saveJobCached(c, ok) == IF ok THEN c.obj ELSE jobsCache

\* storage.set of a saveJob settles (lines 14-15): after the write, or with
\* an error and nothing written
SetSettles(c, ok) ==
    /\ c.op = "saveJob"
    /\ c.pc = IF ok THEN "written" ELSE "set"
    /\ jobsCache' = saveJobCached(c, ok)
    /\ StoreLeave(c)
    /\ UNCHANGED <<kv, objects, storeStarted>>
    /\ JobStoreOnly

\* deleteJob (lines 36-39) up to the await of storage.delete
DeleteJob ==
    /\ \E o \in Objects : objects[o] # 0
    /\ StoreEnter(StoreCall("deleteJob", "delete", 0, 0))
    /\ UNCHANGED <<kv, jobsCache, objects>>
    /\ JobStoreOnly

\* the key-value store removes the key
StorageDeletes(c) ==
    /\ c.op = "deleteJob" /\ c.pc = "delete"
    /\ kv' = 0
    /\ StoreStep(c, [c EXCEPT !.pc = "deleted"])
    /\ UNCHANGED <<jobsCache, objects, storeStarted>>
    /\ JobStoreOnly

\* storage.delete of a deleteJob settles (lines 38-39): the cache entry is
\* removed behind a delete that succeeded
DeleteSettles(c, ok) ==
    /\ c.op = "deleteJob"
    /\ c.pc = IF ok THEN "deleted" ELSE "delete"
    /\ jobsCache' = IF ok THEN 0 ELSE jobsCache
    /\ StoreLeave(c)
    /\ UNCHANGED <<kv, objects, storeStarted>>
    /\ JobStoreOnly

\* what getJob (lines 18-34) returns when no call is in progress: the
\* revision of the cached job object, or of the text under the key (0:
\* null)
getJob == IF jobsCache # 0 THEN objects[jobsCache] ELSE kv

\* getJob (lines 18-25) without a cache entry, up to the await of
\* storage.get
GetJobMiss ==
    /\ jobsCache = 0
    /\ \E o \in Objects : objects[o] # 0
    /\ StoreEnter(StoreCall("getJob", "get", 0, 0))
    /\ UNCHANGED <<kv, jobsCache, objects>>
    /\ JobStoreOnly

\* the key-value store reads the key
StorageGets(c) ==
    /\ c.op = "getJob" /\ c.pc = "get"
    /\ StoreStep(c, [c EXCEPT !.pc = "read", !.data = kv])
    /\ UNCHANGED <<kv, jobsCache, objects, storeStarted>>
    /\ JobStoreOnly

\* storage.get of a getJob settles (lines 25-33): without the key null is
\* returned, else the text is deserialized into a new job object, which is
\* cached
GetSettles(c) ==
    /\ c.op = "getJob" /\ c.pc = "read"
    /\ IF c.data = 0
       THEN UNCHANGED <<jobsCache, objects>>
       ELSE /\ \E o \in Objects : objects[o] = 0
            /\ objects' = [objects EXCEPT ![FreshObject] = c.data]
            /\ jobsCache' = FreshObject
    /\ StoreLeave(c)
    /\ UNCHANGED <<kv, storeStarted>>
    /\ JobStoreOnly

JobStoreNext ==
    \/ SaveNewJob
    \/ \E o \in Objects : UpdateJob(o)
    \/ \E c \in BagToSet(storeCalls) : StorageSets(c)
    \/ \E c \in BagToSet(storeCalls), ok \in BOOLEAN : SetSettles(c, ok)
    \/ DeleteJob
    \/ \E c \in BagToSet(storeCalls) : StorageDeletes(c)
    \/ \E c \in BagToSet(storeCalls), ok \in BOOLEAN : DeleteSettles(c, ok)
    \/ GetJobMiss
    \/ \E c \in BagToSet(storeCalls) : StorageGets(c)
    \/ \E c \in BagToSet(storeCalls) : GetSettles(c)

\* C33: when no call of the job store is in progress, getJob returns the
\* job that the key-value store holds under the key of the id, or nothing
\* when the key is absent, whatever the interleaving of the calls was and
\* also when a write failed
C33_CacheAgreesWithStore ==
    storeCalls = EmptyBag => getJob = kv

(***************************************************************************)
(* The before_tool_call pipeline (spec 4.J) with its two subscribers: the  *)
(* security hook (security-hook.ts) and the sandbox execution hook         *)
(* (execution-hook.ts).                                                    *)
(***************************************************************************)
MaxToolCalls == 2

\* the priority of a subscriber registered without one
DefaultPriority == 0

\* the security hook registered without its priority
SecurityHookNoPriority == DefaultPriority

\* api.on("before_tool_call", ..., { priority: 100 }) of registerSecurityHook
SecurityHookPriority == 100

Handler(hook, priority) == [hook |-> hook, priority |-> priority]

\* api.on of registerSecurityHook (lines 21-195)
registerSecurityHook == Handler("security", SecurityHookPriority)

\* api.on of registerExecutionHook (line 7): no priority is given
registerExecutionHook == Handler("execution", DefaultPriority)

\* the invocation order of the subscribers: highest priority first, stable
\* for equal priorities
InvocationOrder(hs) ==
    LET Before(i, j) == \/ hs[i].priority > hs[j].priority
                        \/ hs[i].priority = hs[j].priority /\ i < j
        Rank(i) == 1 + Cardinality({j \in 1 .. Len(hs) : Before(j, i)})
    IN  [k \in 1 .. Len(hs) |-> hs[CHOOSE i \in 1 .. Len(hs) : Rank(i) = k]]

\* the event of a tool call as the two hooks read it: the security hook
\* reads toolName and params.command, the execution hook reads tool,
\* context.userId and parameters.command
ToolEvent(toolName, tool, params, parameters, userId) ==
    [toolName |-> toolName, tool |-> tool, params |-> params,
     parameters |-> parameters, userId |-> userId]

NoParameters == <<[t |-> "undefined", v |-> "", host |-> <<>>]>>

\* the events of the tool calls: the shape both hooks read, a command in
\* parameters that differs from the one in params, no parameters, no user,
\* the shape only the security hook reads, another tool, and no command
ToolEvents ==
    LET ls == <<W("ls")>>
        rm == <<W("rm"), SP, W("-rf"), SP, W("x")>>
    IN  { ToolEvent("Bash", "Bash", ls, ls, TRUE),
          ToolEvent("Bash", "Bash", rm, ls, TRUE),
          ToolEvent("Bash", "Bash", rm, NoParameters, TRUE),
          ToolEvent("Bash", "Bash", ls, ls, FALSE),
          ToolEvent("Bash", "undefined", ls, NoParameters, TRUE),
          ToolEvent("Read", "Bash", ls, ls, TRUE),
          ToolEvent("Read", "undefined", <<>>, NoParameters, FALSE),
          ToolEvent("Bash", "Bash", <<>>, ls, TRUE) }

\* a tool call in the pipeline: its event, the position of the subscriber
\* invoked next, where it stands, what the security hook returned for it,
\* whether SandboxManager.execute was invoked for it, and whether that was
\* before the security hook returned
ToolCallRecord(event, pos, pc, security, executed) ==
    [event |-> event, pos |-> pos, pc |-> pc, security |-> security,
     executed |-> executed]

PipelineOnly ==
    UNCHANGED <<sandboxVars, approvalVars, classifierVars, hookVars,
                limiterVars, cronVars, scannerVars, secretsConfigVars,
                auditVars, jobStoreVars, isolationVars>>

\* no plugin is loaded
PipelineAtRest ==
    /\ handlers = <<>>
    /\ toolCalls = EmptyBag
    /\ toolStarted = 0

\* both plugins are loaded, in either order
PipelineInit ==
    /\ handlers \in {<<registerSecurityHook, registerExecutionHook>>,
                     <<registerExecutionHook, registerSecurityHook>>}
    /\ toolCalls = EmptyBag
    /\ toolStarted = 0

PipelineStep(c, next) ==
    /\ toolCalls' = (toolCalls (-) SetToBag({c})) (+) SetToBag({next})
    /\ UNCHANGED <<handlers, toolStarted>>
    /\ PipelineOnly

\* the pipeline after a subscriber returned: block ends the call, anything
\* else lets the next subscriber run
AfterHook(c, block) ==
    IF block THEN [c EXCEPT !.pc = "blocked"]
    ELSE [c EXCEPT !.pos = @ + 1, !.pc = "dispatch"]

\* the host starts a tool call
ToolCall(event) ==
    /\ toolStarted < MaxToolCalls
    /\ toolStarted' = toolStarted + 1
    /\ toolCalls' = toolCalls (+)
                    SetToBag({ToolCallRecord(event, 1, "dispatch", "none",
                                             FALSE)})
    /\ UNCHANGED handlers
    /\ PipelineOnly

Subscriber(c) == InvocationOrder(handlers)[c.pos].hook

\* the security hook is invoked (lines 23-38): another tool or a command
\* without text returns undefined; else it awaits the authorization check
SecurityHookInvoked(c) ==
    /\ c.pc = "dispatch"
    /\ c.pos <= Len(handlers)
    /\ Subscriber(c) = "security"
    /\ PipelineStep(c,
          IF \/ c.event.toolName # "Bash"
             \/ c.event.params = <<>>
             \/ trim(c.event.params) = <<>>
          THEN AfterHook([c EXCEPT !.security = "pass"], FALSE)
          ELSE [c EXCEPT !.pc = "isPlatformUserAuthorized"])

\* what the security hook returns by the path it leaves on (lines 39-191)
SecurityHookPaths ==
    {"notAuthorized", "authorizationError", "injection", "rateLimited",
     "classified", "classificationError"}

SecurityHookResult(command, path, analysis) ==
    IF path \in {"notAuthorized", "authorizationError", "injection",
                 "rateLimited"}
    THEN "block"
    ELSE IF path = "classificationError" THEN "params"
    ELSE IF Escalate(classifyCommand(command, NoRules), analysis).action
               = "block"
    THEN "block"
    ELSE "params"

\* the security hook returns (lines 39-191)
SecurityHookReturns(c, path, analysis) ==
    /\ c.pc = "isPlatformUserAuthorized"
    /\ LET result == SecurityHookResult(c.event.params, path, analysis)
       IN  PipelineStep(c, AfterHook([c EXCEPT !.security = result],
                                     result = "block"))

\* the execution hook is invoked (lines 7-21): another tool or a call
\* without user returns the payload; else it awaits getOrCreate
ExecutionHookInvoked(c) ==
    /\ c.pc = "dispatch"
    /\ c.pos <= Len(handlers)
    /\ Subscriber(c) = "execution"
    /\ PipelineStep(c,
          IF c.event.tool # "Bash" \/ ~c.event.userId
          THEN AfterHook(c, FALSE)
          ELSE [c EXCEPT !.pc = "getOrCreate"])

\* getOrCreate resolved (lines 23-25): reading the command of undefined
\* parameters throws into the catch of lines 37-49; else
\* SandboxManager.execute is invoked
GetOrCreateResolved(c) ==
    /\ c.pc = "getOrCreate"
    /\ PipelineStep(c,
          IF c.event.parameters = NoParameters
          THEN AfterHook(c, FALSE)
          ELSE [c EXCEPT !.pc = "execute", !.executed = TRUE])

\* getOrCreate rejected: the catch (lines 37-49) returns the payload with
\* the error
GetOrCreateRejected(c) ==
    /\ c.pc = "getOrCreate"
    /\ PipelineStep(c, AfterHook(c, FALSE))

\* execute settled (lines 27-49): the payload with the result is returned
ExecuteSettled(c) ==
    /\ c.pc = "execute"
    /\ PipelineStep(c, AfterHook(c, FALSE))

\* every subscriber has returned without block: the host runs the tool
ToolRuns(c) ==
    /\ c.pc = "dispatch"
    /\ c.pos > Len(handlers)
    /\ PipelineStep(c, [c EXCEPT !.pc = "ran"])

HighScoreAnalysis ==
    [NoAnalysis EXCEPT !.isAnomaly = TRUE, !.score = 70,
                       !.factors = <<"Uncommon command type">>]

PipelineNext ==
    \/ \E event \in ToolEvents : ToolCall(event)
    \/ \E c \in BagToSet(toolCalls) : SecurityHookInvoked(c)
    \/ \E c \in BagToSet(toolCalls), path \in SecurityHookPaths,
          analysis \in {NoAnalysis, HighScoreAnalysis} :
           SecurityHookReturns(c, path, analysis)
    \/ \E c \in BagToSet(toolCalls) : ExecutionHookInvoked(c)
    \/ \E c \in BagToSet(toolCalls) : GetOrCreateResolved(c)
    \/ \E c \in BagToSet(toolCalls) : GetOrCreateRejected(c)
    \/ \E c \in BagToSet(toolCalls) : ExecuteSettled(c)
    \/ \E c \in BagToSet(toolCalls) : ToolRuns(c)

MaxIssued == 3

Tenant == "A"
OtherUsers == {"B"}

\* the entry createEntry builds (lines 26-35) with the user it is for
TenantEntry(userId, command, level, action) ==
    [userId |-> userId, command |-> command, level |-> level,
     action |-> action]

\* the decisions the hook records: the command with its level and action
Decisions == {<<"ls", "green", "allow">>, <<"rm -rf x", "red", "block">>}

\* createEntry (lines 38-43): the entry is put in front and the oldest entry
\* is dropped beyond MAX_ENTRIES
unshiftEntry(es, entry) ==
    LET unshifted == <<entry>> \o es
    IN  IF Len(unshifted) > MAX_ENTRIES
        THEN SubSeq(unshifted, 1, Len(unshifted) - 1)
        ELSE unshifted

\* array.slice(offset, offset + limit)
slice(s, from, to) ==
    SubSeq(s, from + 1, IF to < Len(s) THEN to ELSE Len(s))

\* getEntries (lines 67-103): the filters by user, level and action, then
\* the slice
getEntries(es, userId, limit, offset, level, action) ==
    LET Keeps(e) == /\ userId # "" => e.userId = userId
                    /\ level # "" => e.level = level
                    /\ action # "" => e.action = action
    IN  slice(SelectSeq(es, Keeps), offset, offset + limit)

\* getCount (lines 153-155)
getCount(es) == Len(es)

\* the response of carapace.audit.logs (index.ts lines 89-112)
auditLogs(es, userId, limit, offset, level, action) ==
    [entries |-> getEntries(es, userId, limit, offset, level, action),
     total |-> getCount(es)]

NoLogs == [userId |-> "", response |-> <<>>]

IsolationOnly ==
    UNCHANGED <<sandboxVars, approvalVars, classifierVars, hookVars,
                limiterVars, cronVars, scannerVars, secretsConfigVars,
                auditVars, jobStoreVars, pipelineVars>>

IsolationInit ==
    /\ runs = <<(<<>>), (<<>>)>>
    /\ issued = 0
    /\ logs = NoLogs

\* the tenant issues a command: the hook records its decision, in both runs
TenantIssues(d) ==
    /\ issued < MaxIssued
    /\ issued' = issued + 1
    /\ runs' = [r \in {1, 2} |->
                   unshiftEntry(runs[r], TenantEntry(Tenant, d[1], d[2],
                                                     d[3]))]
    /\ logs' = NoLogs
    /\ IsolationOnly

\* another user issues a command in one of the runs
OtherIssues(r, userId, d) ==
    /\ issued < MaxIssued
    /\ issued' = issued + 1
    /\ runs' = [runs EXCEPT
                   ![r] = unshiftEntry(@, TenantEntry(userId, d[1], d[2],
                                                      d[3]))]
    /\ logs' = NoLogs
    /\ IsolationOnly

\* carapace.audit.logs is called with the same parameters in both runs
AuditLogsCalled(userId, limit, offset, level) ==
    /\ logs' = [userId |-> userId,
                response |-> [r \in {1, 2} |->
                                 auditLogs(runs[r], userId, limit, offset,
                                           level, "")]]
    /\ UNCHANGED <<runs, issued>>
    /\ IsolationOnly

IsolationNext ==
    \/ \E d \in Decisions : TenantIssues(d)
    \/ \E r \in {1, 2}, userId \in OtherUsers, d \in Decisions :
           OtherIssues(r, userId, d)
    \/ \E userId \in {Tenant} \cup OtherUsers, limit \in {1, 50},
          offset \in {0, 1}, level \in {"", "green"} :
           AuditLogsCalled(userId, limit, offset, level)

\* C39: the response of carapace.audit.logs for the tenant, its entries and
\* its total, is the same in two runs that differ only in the commands of
\* other users
C39_TenantIsolation ==
    logs.userId = Tenant => logs.response[1] = logs.response[2]

(***************************************************************************)
(* The specifications: one for each component, with the other components   *)
(* at rest in one initial state.                                           *)
(***************************************************************************)
ScannerAtRest == history = <<<<>>>> /\ scanned = NotScanned
\* the scanner, the secrets detection configuration and the audit log at rest
SecretsAtRest ==
    /\ ScannerAtRest
    /\ SecretsConfigInit
    /\ AuditInit
    /\ JobStoreInit
    /\ PipelineAtRest
    /\ IsolationInit

SandboxAtRest == SandboxInit /\ apiKey = TRUE
HookAtRest == HookInit /\ recentCommands = <<>> /\ hour = 12
LimiterAtRest ==
    LimiterInit /\ config.maxRequests = 0 /\ config.perChannel = FALSE

SandboxSpecInit ==
    /\ SandboxInit /\ ApprovalInit /\ ClassifierInit /\ HookAtRest
    /\ LimiterAtRest /\ CronInit /\ SecretsAtRest
ApprovalSpecInit ==
    /\ SandboxAtRest /\ ApprovalInit /\ ClassifierInit /\ HookAtRest
    /\ LimiterAtRest /\ CronInit /\ SecretsAtRest
ClassifierSpecInit ==
    /\ SandboxAtRest /\ ApprovalInit /\ ClassifierInit /\ HookAtRest
    /\ LimiterAtRest /\ CronInit /\ SecretsAtRest
HookSpecInit ==
    /\ SandboxAtRest /\ ApprovalInit /\ ClassifierInit /\ HookInit
    /\ LimiterAtRest /\ CronInit /\ SecretsAtRest
LimiterSpecInit ==
    /\ SandboxAtRest /\ ApprovalInit /\ ClassifierInit /\ HookAtRest
    /\ LimiterInit /\ CronInit /\ SecretsAtRest
CronSpecInit ==
    /\ SandboxAtRest /\ ApprovalInit /\ ClassifierInit /\ HookAtRest
    /\ LimiterAtRest /\ CronInit /\ SecretsAtRest

ComponentsAtRest ==
    /\ SandboxAtRest /\ ApprovalInit /\ ClassifierInit /\ LimiterAtRest
    /\ CronInit
    /\ JobStoreInit
    /\ PipelineAtRest
    /\ IsolationInit
ScannerSpecInit ==
    /\ ComponentsAtRest /\ HookAtRest /\ ScannerInit /\ SecretsConfigInit
    /\ AuditInit
SecretsConfigSpecInit ==
    /\ ComponentsAtRest /\ HookAtRest /\ ScannerAtRest /\ SecretsConfigInit
    /\ AuditInit
\* the store is empty or one entry short of full
AuditStoreSpecInit ==
    /\ ComponentsAtRest /\ AuditStoreInit /\ ScannerAtRest
    /\ SecretsConfigInit /\ AuditInit
    /\ buckets = NoBucket /\ baselines = NoBaseline /\ recentCommands = <<>>
    /\ hour = 12 /\ hookCalls = EmptyBag /\ hookStarted = 0
    /\ hookReturn = NoReturn
\* the mode is one that a configure request has set
AuditLogSpecInit ==
    /\ ComponentsAtRest /\ HookAtRest /\ ScannerAtRest /\ AuditInit
    /\ secretsDetectionConfig \in
          {configureSecretsDetection({"mode"}, [mode |-> m]) : m \in Modes}
    /\ configureCall = NoConfigureCall

SandboxSpec == SandboxSpecInit /\ [][SandboxNext]_vars

\* an armed idle timer fires, and what a call awaits settles
SandboxFairness ==
    /\ WF_vars(\E c \in Calls, k \in Creations : IdleTimerFire(c, k))
    /\ WF_vars(\E c \in Calls : DoCreateAfterImport(c))
    /\ WF_vars(\E c \in Calls, ok \in BOOLEAN : DoCreateProviderResult(c, ok))
    /\ WF_vars(\E c \in Calls : GetOrCreateFinally(c))
    /\ WF_vars(\E c \in Calls : GetOrCreateJoinedReturn(c))
    /\ WF_vars(\E c \in Calls : ExecuteAfterGetOrCreate(c))
    /\ WF_vars(\E c \in Calls, ok \in BOOLEAN : ExecuteRunResult(c, ok))
    /\ WF_vars(\E c \in Calls, ok \in BOOLEAN : HibernatePauseResult(c, ok))
    /\ WF_vars(\E c \in Calls, ok \in BOOLEAN : HibernateKillResult(c, ok))
    /\ WF_vars(\E c \in Calls, ok \in BOOLEAN : TerminateKillResult(c, ok))

SandboxFairSpec == SandboxSpecInit /\ [][SandboxNext]_vars /\ SandboxFairness

ApprovalSpec == ApprovalSpecInit /\ [][ApprovalNext]_vars

ClassifierSpec == ClassifierSpecInit /\ [][ClassifierNext]_vars

HookSpec == HookSpecInit /\ [][HookNext]_vars

LimiterSpec == LimiterSpecInit /\ [][LimiterNext]_vars

CronSpec == CronSpecInit /\ [][CronNext]_vars

ScannerSpec == ScannerSpecInit /\ [][ScannerNext]_vars

SecretsConfigSpec == SecretsConfigSpecInit /\ [][SecretsConfigNext]_vars

AuditStoreSpec == AuditStoreSpecInit /\ [][AuditStoreNext]_vars

AuditLogSpec == AuditLogSpecInit /\ [][AuditLogNext]_vars

\* the timers fire, and what an execution awaits settles: the race by the
\* execution timeout at the latest, and the calls of the job store
CronFairness ==
    /\ \A job \in JobIds : WF_vars(TimerFires(job))
    /\ \A job \in JobIds : WF_vars(OrphanTimerFires(job))
    /\ WF_vars(\E e \in BagToSet(executions) :
                  ExecutorResolves(e) \/ ExecutorRejects(e)
                      \/ ExecutionTimeout(e))
    /\ WF_vars(\E e \in BagToSet(executions) :
                  UpdateJobReturns(e) \/ UpdateJobThrows(e))
    /\ WF_vars(\E e \in BagToSet(executions) :
                  CatchUpdateJobReturns(e) \/ CatchUpdateJobThrows(e))

CronFairSpec == CronSpecInit /\ [][CronNext]_vars /\ CronFairness

\* the scheduler with a job that has a history of executions
CronRetrySpecInit ==
    /\ SandboxAtRest /\ ApprovalInit /\ ClassifierInit /\ HookAtRest
    /\ LimiterAtRest /\ CronRetryInit /\ SecretsAtRest
CronRetrySpec == CronRetrySpecInit /\ [][CronRetryNext]_vars

JobStoreSpecInit == ComponentsAtRest /\ HookAtRest /\ SecretsAtRest
JobStoreSpec == JobStoreSpecInit /\ [][JobStoreNext]_vars

PipelineSpecInit ==
    /\ SandboxAtRest /\ ApprovalInit /\ ClassifierInit /\ HookAtRest
    /\ LimiterAtRest /\ CronInit /\ ScannerAtRest /\ SecretsConfigInit
    /\ AuditInit /\ JobStoreInit /\ IsolationInit
    /\ PipelineInit

PipelineSpec == PipelineSpecInit /\ [][PipelineNext]_vars

AuditIsolationSpecInit == ComponentsAtRest /\ HookAtRest /\ SecretsAtRest
AuditIsolationSpec == AuditIsolationSpecInit /\ [][IsolationNext]_vars

====
